---- MODULE Spec2Model ----
(***************************************************************************)
(* Model of the benchmark-evaluation pipeline of evaluation/retrieval:     *)
(* the instance scheduler (BaseRetrieval._prepare_instances), the index    *)
(* lifecycle (CustomRetrieval.async_build_index / async_search) and the    *)
(* per-instance loop with its result store (CustomRetrieval.async_run,     *)
(* specification Spec; GrepRetrieval.async_run, specification SpecGrep).   *)
(***************************************************************************)
EXTENDS Integers, Sequences, FiniteSets, TLC

\* ------------------------------------------------------------------ bounds
NumInstances == 2
MaxCap == 2
MaxRuns == 2
MaxPolls == 1
MaxFiles == 2
MaxCalls == 2
MaxArg == 2
MaxTokens == 1
MaxMessages == 2
MaxText == 2
MaxPatchLines == 3
MaxLines == 2

\* ------------------------------------------------------------ the dataset
InstanceIds == 1..NumInstances

\* A directory of the output location that belongs to no instance of the dataset.
Foreign == NumInstances + 1

DirNames == InstanceIds \cup {Foreign}

\* The loaded dataset: instance ids in dataset order (here: descending ids).
Dataset == [k \in 1..NumInstances |-> NumInstances + 1 - k]

RangeOf(s) == {s[k] : k \in DOMAIN s}

\* max_instances is None (the empty tuple) or an integer (a 1-tuple).
CapInputs == {<<>>} \cup {<<c>> : c \in (-1)..MaxCap}

ExcKinds ==
  {"setup_error", "checkout_error", "session_error", "config_error",
   "build_error", "clear_error", "search_error", "persist_error", "log_error"}

Origins ==
  {"loop", "checkout", "build_enter", "index", "poll", "build_close",
   "search_enter", "agent", "search_close", "persist"}

IndexStates == {"Absent", "Building", "Ready", "Failed", "Cleared"}

VARIABLES
  instance_dirs,       \* directories <outputDir>/<name> that exist
  result_json,         \* directories that hold result.json
  error_log,           \* directories that hold error.log
  changes_diff,        \* directories that hold changes.diff
  conversation_log,    \* per instance: "none" (no conversation.log), or whether
                       \* the file's transcript holds edit-call blocks
  jsonl_exists,        \* <outputDir>/<dataset>__retrieval.jsonl exists
  jsonl_ids,           \* the instance_id values of its lines
  max_instances,       \* self.max_instances
  retrieval_cc,        \* "cc" in self.retrieval_types
  remaining_instances, \* what _filter_existing_instances returned
  processed_count,     \* its processed_count
  instances,           \* self.instances
  pc,                  \* position of the pipeline
  idx,                 \* position of async_run's loop in self.instances
  exc,                 \* the exception that is propagating ("none" if none)
  origin,              \* the step whose exception started the propagation
  polls,               \* status polls of the status loop that is running
  runs,                \* constructions so far
  index_state,         \* IndexState of the instance processed last
  build_started,       \* index_codebase was invoked for the current instance
  clear_calls,         \* clear_index invocations for the current instance
  clear_ok,            \* a clear_index invocation for it returned normally
  clear_raised,        \* a clear_index invocation for it raised
  search_ran,          \* evaluator.async_run was entered for it
  attempted,           \* instances whose iteration this run has completed
  logged,              \* what error.log of the current instance records
  conv_logged,         \* conversation.log of the current instance was written
  diff_raised,         \* create_unified_diff_file raised for the current instance
  call                 \* the call of a pure function under check, with its result

store ==
  <<instance_dirs, result_json, error_log, changes_diff, conversation_log,
    jsonl_exists, jsonl_ids>>
config == <<max_instances, retrieval_cc>>
plan == <<remaining_instances, processed_count, instances>>
backend == <<index_state>>
hist == <<build_started, clear_calls, clear_ok, clear_raised, search_ran>>
diffcur == <<conv_logged, diff_raised>>

vars ==
  <<instance_dirs, result_json, error_log, changes_diff, conversation_log,
    jsonl_exists, jsonl_ids, max_instances, retrieval_cc, remaining_instances, processed_count,
    instances, pc, idx, exc, origin, polls, runs, index_state,
    build_started, clear_calls, clear_ok, clear_raised,
    search_ran, attempted, logged, conv_logged, diff_raised,
    call>>

\* ----------------------------------------------------------- the scheduler

\* file_management.get_remaining_instances
GetRemainingInstances(insts, file_exists, file_ids) ==
  IF file_exists
    THEN SelectSeq(insts, LAMBDA i : i \notin file_ids)
    ELSE insts

\* Mutant of FilterExistingInstances: the directory layout counts every instance
\* directory as processed, without looking for result.json in it.
FilterExistingInstances_AnyDir(insts, file_exists, file_ids, dirs, results) ==
  IF file_exists
    THEN LET rem == GetRemainingInstances(insts, file_exists, file_ids)
         IN  [remaining |-> rem, processed |-> Len(insts) - Len(rem)]
    ELSE [remaining |-> SelectSeq(insts, LAMBDA i : i \notin dirs),
          processed |-> Cardinality(dirs)]

\* Mutant of FilterExistingInstances: an instance counts as processed when
\* either layout holds a record of it.
FilterExistingInstances_BothLayouts(insts, file_exists, file_ids, dirs, results) ==
  LET processed_instance_ids ==
        {d \in dirs : d \in results} \cup (IF file_exists THEN file_ids ELSE {})
  IN  [remaining |-> SelectSeq(insts, LAMBDA i : i \notin processed_instance_ids),
       processed |-> Cardinality(processed_instance_ids)]

\* BaseRetrieval._filter_existing_instances: (remaining_instances, processed_count)
FilterExistingInstances(insts, file_exists, file_ids, dirs, results) ==
  IF file_exists
    THEN LET rem == GetRemainingInstances(insts, file_exists, file_ids)
         IN  [remaining |-> rem, processed |-> Len(insts) - Len(rem)]
    ELSE LET processed_instance_ids == {d \in dirs : d \in results}
         IN  [remaining |-> SelectSeq(insts, LAMBDA i : i \notin processed_instance_ids),
              processed |-> Cardinality(processed_instance_ids)]

\* "self.max_instances is not None and self.max_instances > 0"
CapIsSet(cap) == Len(cap) = 1 /\ cap[1] > 0

\* Mutant of PrepareInstances: the cap is applied to this run alone, without
\* subtracting what earlier runs processed.
PrepareInstances_IgnoreProgress(cap, rem, processed) ==
  IF rem = <<>>
    THEN <<>>
    ELSE IF CapIsSet(cap)
      THEN IF Len(rem) > cap[1] THEN SubSeq(rem, 1, cap[1]) ELSE rem
      ELSE rem

\* Mutant of PrepareInstances: the plan stops only once the progress exceeds
\* the cap, and holds one instance more than the cap leaves room for.
PrepareInstances_OneMore(cap, rem, processed) ==
  IF rem = <<>>
    THEN <<>>
    ELSE IF CapIsSet(cap)
      THEN IF processed > cap[1]
             THEN <<>>
             ELSE IF Len(rem) > cap[1] - processed + 1
                    THEN SubSeq(rem, 1, cap[1] - processed + 1)
                    ELSE rem
      ELSE rem

\* BaseRetrieval._prepare_instances, after the filter
PrepareInstances(cap, rem, processed) ==
  IF rem = <<>>
    THEN <<>>
    ELSE IF CapIsSet(cap)
      THEN IF processed >= cap[1]
             THEN <<>>
             ELSE IF Len(rem) > cap[1] - processed
                    THEN SubSeq(rem, 1, cap[1] - processed)
                    ELSE rem
      ELSE rem

\* ------------------------------------------------------------------- Init

\* No pure function is under check.
NoCall == [op |-> "none"]

\* The output location a first run finds: per-instance directories (some with
\* result.json), or the legacy result log and no directories.
StoreInit ==
  /\ \/ /\ jsonl_exists = FALSE
        /\ jsonl_ids = {}
        /\ result_json \in SUBSET DirNames
     \/ /\ jsonl_exists = TRUE
        /\ jsonl_ids \in SUBSET InstanceIds
        /\ result_json = {}
  /\ instance_dirs = result_json
  /\ error_log = {}
  /\ changes_diff = {}
  /\ conversation_log = [i \in InstanceIds |-> "none"]

\* No retrieval object exists yet.
ControlInit ==
  /\ max_instances = <<>>
  /\ retrieval_cc = FALSE
  /\ remaining_instances = <<>>
  /\ processed_count = 0
  /\ instances = <<>>
  /\ pc = "idle"
  /\ idx = 1
  /\ exc = "none"
  /\ origin = "none"
  /\ polls = 0
  /\ runs = 0
  /\ index_state = "Absent"
  /\ build_started = FALSE
  /\ clear_calls = 0
  /\ clear_ok = FALSE
  /\ clear_raised = FALSE
  /\ search_ran = FALSE
  /\ attempted = {}
  /\ logged = "none"
  /\ conv_logged = FALSE
  /\ diff_raised = FALSE

Init == StoreInit /\ ControlInit /\ call = NoCall

cur == instances[idx]

\* ---------------------------------------------------------------- actions

\* CustomRetrieval.__init__: BaseRetrieval.__init__ plans the run. A run
\* starts on a fresh object, also after an exception ended the run before.
Construct(cap, cc) ==
  /\ pc \in {"idle", "constructed", "escaped"}
  /\ runs < MaxRuns
  /\ LET f == FilterExistingInstances(Dataset, jsonl_exists, jsonl_ids,
                                      instance_dirs, result_json)
     IN  /\ remaining_instances' = f.remaining
         /\ processed_count' = f.processed
         /\ instances' = PrepareInstances(cap, f.remaining, f.processed)
  /\ max_instances' = cap
  /\ retrieval_cc' = cc
  /\ runs' = runs + 1
  /\ pc' = "constructed"
  /\ idx' = 1
  /\ exc' = "none"
  /\ origin' = "none"
  /\ polls' = 0
  /\ index_state' = "Absent"
  /\ build_started' = FALSE
  /\ clear_calls' = 0
  /\ clear_ok' = FALSE
  /\ clear_raised' = FALSE
  /\ search_ran' = FALSE
  /\ attempted' = {}
  /\ logged' = "none"
  /\ conv_logged' = FALSE
  /\ diff_raised' = FALSE
  /\ UNCHANGED <<store, call>>

\* async_run: the loop takes the next instance and creates its directory.
\* The subscripts of the record and os.makedirs stand before the try block:
\* when one of them raises (a record without a field, a file of that name, a
\* directory that cannot be written) the exception leaves async_run and run(),
\* no directory is created and the later instances are not processed.
LoopNext(ok) ==
  /\ pc \in {"constructed", "loop"}
  /\ idx <= Len(instances)
  /\ IF ok
       THEN /\ instance_dirs' = instance_dirs \cup {cur}
            /\ pc' = "checkout"
            /\ exc' = "none"
            /\ origin' = "none"
       ELSE /\ pc' = "escaped"
            /\ exc' = "setup_error"
            /\ origin' = "loop"
            /\ UNCHANGED instance_dirs
  /\ polls' = 0
  /\ index_state' = IF ok THEN "Absent" ELSE index_state
  /\ build_started' = FALSE
  /\ clear_calls' = 0
  /\ clear_ok' = FALSE
  /\ clear_raised' = FALSE
  /\ search_ran' = FALSE
  /\ logged' = "none"
  /\ conv_logged' = FALSE
  /\ diff_raised' = FALSE
  /\ UNCHANGED <<result_json, error_log, changes_diff, conversation_log,
                 jsonl_exists, jsonl_ids, config, plan, idx, runs, attempted,
                 call>>

\* async_run: the loop is exhausted.
RunDone ==
  /\ pc \in {"constructed", "loop"}
  /\ idx > Len(instances)
  /\ pc' = "idle"
  /\ UNCHANGED <<store, config, plan, idx, exc, origin, polls, runs, backend,
                 hist, attempted, logged>>
  /\ UNCHANGED <<diffcur, call>>

\* An exception starts to propagate out of step o.
Raise(kind, o) ==
  /\ exc' = kind
  /\ origin' = o
  /\ pc' = "except"

\* clone_repo and ContextManager.__enter__ (reset --hard, clean).
Checkout(ok) ==
  /\ pc = "checkout"
  /\ IF ok
       THEN pc' = "build" /\ UNCHANGED <<exc, origin>>
       ELSE Raise("checkout_error", "checkout")
  /\ UNCHANGED <<store, config, plan, idx, polls, runs, backend, hist,
                 attempted, logged>>
  /\ UNCHANGED <<diffcur, call>>

\* Mutant of BuildEnter: the early return without "cc" is missing.
BuildEnter_NoEarlyReturn(outcome) ==
  /\ pc = "build"
  /\ CASE outcome = "ok" -> pc' = "index" /\ UNCHANGED <<exc, origin>>
       [] outcome = "session_error" -> Raise("session_error", "build_enter")
       [] outcome = "tools_missing" ->
            /\ exc' = "config_error"
            /\ origin' = "build_enter"
            /\ pc' = "build_close"
  /\ UNCHANGED <<store, config, plan, idx, polls, runs, backend, hist,
                 attempted, logged>>
  /\ UNCHANGED <<diffcur, call>>

\* async_build_index up to the try block: the early return without "cc", the
\* sessions, and the check that the three index tools were found. The
\* RuntimeError of the check is raised inside the async with block, so the
\* sessions are closed before it leaves async_build_index.
BuildEnter(outcome) ==
  /\ pc = "build"
  /\ IF ~retrieval_cc
       THEN outcome = "ok" /\ pc' = "search" /\ UNCHANGED <<exc, origin>>
       ELSE CASE outcome = "ok" -> pc' = "index" /\ UNCHANGED <<exc, origin>>
              [] outcome = "session_error" -> Raise("session_error", "build_enter")
              [] outcome = "tools_missing" ->
                   /\ exc' = "config_error"
                   /\ origin' = "build_enter"
                   /\ pc' = "build_close"
  /\ UNCHANGED <<store, config, plan, idx, polls, runs, backend, hist,
                 attempted, logged>>
  /\ UNCHANGED <<diffcur, call>>

\* index_tool.ainvoke inside the try block.
IndexInvoke(ok) ==
  /\ pc = "index"
  /\ build_started' = TRUE
  /\ IF ok
       THEN /\ index_state' = "Building"
            /\ pc' = "poll"
            /\ UNCHANGED <<exc, origin>>
       ELSE /\ index_state' = "Failed"
            /\ exc' = "build_error"
            /\ origin' = "index"
            /\ pc' = "build_clear"
  /\ UNCHANGED <<store, config, plan, idx, polls, runs,
                 clear_calls, clear_ok, clear_raised, search_ran, attempted,
                 logged>>
  /\ UNCHANGED <<diffcur, call>>

\* Mutant of Poll: a status result without the readiness phrase ends the
\* status loop as well.
Poll_AnyStatusEndsLoop(res) ==
  /\ pc = "poll"
  /\ CASE res = "ready" ->
            /\ index_state' = "Ready"
            /\ pc' = "build_close"
            /\ polls' = 0
            /\ UNCHANGED <<exc, origin>>
       [] res = "not_ready" ->
            /\ polls < MaxPolls
            /\ polls' = polls + 1
            /\ pc' = "build_close"
            /\ UNCHANGED <<index_state, exc, origin>>
       [] res = "raise" ->
            /\ index_state' = "Failed"
            /\ exc' = "build_error"
            /\ origin' = "poll"
            /\ pc' = "build_clear"
            /\ polls' = 0
  /\ UNCHANGED <<store, config, plan, idx, runs,  hist,
                 attempted, logged>>
  /\ UNCHANGED <<diffcur, call>>

\* One round of the status loop: indexing_status_tool.ainvoke.
Poll(res) ==
  /\ pc = "poll"
  /\ CASE res = "ready" ->
            /\ index_state' = "Ready"
            /\ pc' = "build_close"
            /\ polls' = 0
            /\ UNCHANGED <<exc, origin>>
       [] res = "not_ready" ->
            /\ polls < MaxPolls
            /\ polls' = polls + 1
            /\ UNCHANGED <<index_state, pc, exc, origin>>
       [] res = "raise" ->
            /\ index_state' = "Failed"
            /\ exc' = "build_error"
            /\ origin' = "poll"
            /\ pc' = "build_clear"
            /\ polls' = 0
  /\ UNCHANGED <<store, config, plan, idx, runs,  hist,
                 attempted, logged>>
  /\ UNCHANGED <<diffcur, call>>

\* Mutant of ClearAfterBuildFailure: the except block re-raises without clearing.
ClearAfterBuildFailure_NoClear(ok) ==
  /\ pc = "build_clear"
  /\ pc' = "build_close"
  /\ UNCHANGED <<store, config, plan, idx, exc, origin, polls, runs, backend,
                 hist, attempted, logged>>
  /\ UNCHANGED <<diffcur, call>>

\* Mutant of ClearAfterBuildFailure: the except block clears and swallows
\* the exception, so the search step follows.
ClearAfterBuildFailure_Swallow(ok) ==
  /\ pc = "build_clear"
  /\ clear_calls' = clear_calls + 1
  /\ IF ok
       THEN /\ index_state' = "Cleared"
            /\ clear_ok' = TRUE
            /\ UNCHANGED clear_raised
       ELSE /\ clear_raised' = TRUE
            /\ UNCHANGED <<index_state, clear_ok>>
  /\ exc' = "none"
  /\ pc' = "build_close"
  /\ UNCHANGED <<store, config, plan, idx, origin, polls, runs,
                 build_started, search_ran, attempted,
                 logged>>
  /\ UNCHANGED <<diffcur, call>>

\* The except block of async_build_index: clear_index_tool.ainvoke, then raise e.
ClearAfterBuildFailure(ok) ==
  /\ pc = "build_clear"
  /\ clear_calls' = clear_calls + 1
  /\ IF ok
       THEN /\ index_state' = "Cleared"
            /\ clear_ok' = TRUE
            /\ UNCHANGED <<exc, clear_raised>>
       ELSE /\ exc' = "clear_error"
            /\ clear_raised' = TRUE
            /\ UNCHANGED <<index_state, clear_ok>>
  /\ pc' = "build_close"
  /\ UNCHANGED <<store, config, plan, idx, origin, polls, runs,
                 build_started, search_ran, attempted,
                 logged>>
  /\ UNCHANGED <<diffcur, call>>

\* The exit of "async with self.mcp_sessions_context()" in async_build_index:
\* the sessions are closed after the status loop ended, after the RuntimeError
\* of the tool check and after the except block re-raised. An exception of the
\* close propagates in place of the one that was propagating.
CloseBuildSessions(ok) ==
  /\ pc = "build_close"
  /\ IF ok
       THEN /\ pc' = IF exc = "none" THEN "search" ELSE "except"
            /\ UNCHANGED <<exc, origin>>
       ELSE /\ exc' = "session_error"
            /\ origin' = IF exc = "none" THEN "build_close" ELSE origin
            /\ pc' = "except"
  /\ UNCHANGED <<store, config, plan, idx, polls, runs, backend, hist,
                 attempted, logged>>
  /\ UNCHANGED <<diffcur, call>>

\* async_search up to the try block: the sessions, the Evaluator, the prompt.
SearchEnter(ok) ==
  /\ pc = "search"
  /\ IF ok
       THEN pc' = "agent" /\ UNCHANGED <<exc, origin>>
       ELSE Raise("session_error", "search_enter")
  /\ UNCHANGED <<store, config, plan, idx, polls, runs, backend, hist,
                 attempted, logged>>
  /\ UNCHANGED <<diffcur, call>>

\* Where async_run goes once async_search is left.
AfterSearch(e) == IF e = "none" THEN "persist" ELSE "except"

\* evaluator.async_run inside try; the finally block starts. With "cc" the
\* block looks up tools["clear_index_tool"] of the search's own sessions and
\* invokes it only when the sessions offered it (clear_index_tool /= None).
AgentRun(ok, clear_index_tool) ==
  /\ pc = "agent"
  /\ clear_index_tool => retrieval_cc
  /\ search_ran' = TRUE
  /\ exc' = IF ok THEN "none" ELSE "search_error"
  /\ origin' = IF ok THEN "none" ELSE "agent"
  /\ pc' = IF retrieval_cc /\ clear_index_tool THEN "search_clear" ELSE "search_close"
  /\ UNCHANGED <<store, config, plan, idx, polls, runs, backend, build_started,
                 clear_calls, clear_ok, clear_raised, attempted, logged>>
  /\ UNCHANGED <<diffcur, call>>

\* The finally block of async_search: clear_index_tool.ainvoke in its own try.
ClearAfterSearch(ok) ==
  /\ pc = "search_clear"
  /\ clear_calls' = clear_calls + 1
  /\ IF ok
       THEN /\ index_state' = "Cleared"
            /\ clear_ok' = TRUE
            /\ UNCHANGED clear_raised
       ELSE /\ clear_raised' = TRUE
            /\ UNCHANGED <<index_state, clear_ok>>
  /\ pc' = "search_close"
  /\ UNCHANGED <<store, config, plan, idx, exc, origin, polls, runs,
                 build_started, search_ran, attempted,
                 logged>>
  /\ UNCHANGED <<diffcur, call>>

\* The exit of "async with self.mcp_sessions_context()" in async_search: the
\* return statement stands inside the block, so the sessions are closed after
\* the finally block and before async_search returns. An exception of the
\* close propagates to async_run, in place of the agent's if that one was
\* propagating, and no result is returned.
CloseSearchSessions(ok) ==
  /\ pc = "search_close"
  /\ IF ok
       THEN /\ pc' = AfterSearch(exc)
            /\ UNCHANGED <<exc, origin>>
       ELSE /\ exc' = "session_error"
            /\ origin' = IF exc = "none" THEN "search_close" ELSE origin
            /\ pc' = "except"
  /\ UNCHANGED <<store, config, plan, idx, polls, runs, backend, hist,
                 attempted, logged>>
  /\ UNCHANGED <<diffcur, call>>

\* extract_edit_calls_from_conversation_log finds at least one edit-call block
\* in the transcript kept in conversation.log of instance i.
HasEditCalls(i) == conversation_log[i] = "edit_calls"

\* Outcomes of the statements between the with block and the inner try:
\* everything succeeds; an exception before result.json is opened
\* (extract_oracle_files_from_patch on a patch that is no string, the open
\* itself); an exception once result.json is open and before conversation.log
\* is (json.dump, the open of the log); an exception of the write of the log.
PersistOutcomes == {"ok", "raise_before_write", "raise_in_result", "raise_in_log"}

\* Mutant of Persist: result.json is written only after conversation.log was
\* written, so a failing log write leaves no result record.
Persist_ResultLast(edits, outcome) ==
  /\ pc = "persist"
  /\ outcome \in {"raise_before_write", "raise_in_result"} => ~edits
  /\ result_json' = IF outcome = "ok" THEN result_json \cup {cur} ELSE result_json
  /\ conversation_log' =
       IF outcome \in {"ok", "raise_in_log"}
         THEN [conversation_log EXCEPT
                 ![cur] = IF edits THEN "edit_calls" ELSE "no_edit_calls"]
         ELSE conversation_log
  /\ IF outcome = "ok"
       THEN /\ conv_logged' = TRUE
            /\ pc' = "diff"
            /\ UNCHANGED <<exc, origin>>
       ELSE /\ exc' = "persist_error"
            /\ origin' = "persist"
            /\ pc' = "except"
            /\ UNCHANGED conv_logged
  /\ UNCHANGED <<instance_dirs, error_log, changes_diff, jsonl_exists, jsonl_ids,
                 config, plan, idx, polls, runs, backend, hist,
                 attempted, logged, diff_raised, call>>

\* async_run after the with block, still inside the try block: the oracle
\* files are extracted, result.json is written, then conversation.log. edits
\* tells whether the text that reached conversation.log holds edit-call
\* blocks: the whole transcript when the write succeeded, the part written
\* before the exception when it raised (a character the file's encoding cannot
\* hold, a full disk). An exception before the log is opened leaves the log
\* of an earlier run, if any, as it was. Every exception goes to the handler
\* of the instance; result.json exists as soon as it was opened, complete or
\* not.
Persist(edits, outcome) ==
  /\ pc = "persist"
  /\ outcome \in {"raise_before_write", "raise_in_result"} => ~edits
  /\ result_json' = IF outcome = "raise_before_write"
                      THEN result_json
                      ELSE result_json \cup {cur}
  /\ conversation_log' =
       IF outcome \in {"ok", "raise_in_log"}
         THEN [conversation_log EXCEPT
                 ![cur] = IF edits THEN "edit_calls" ELSE "no_edit_calls"]
         ELSE conversation_log
  /\ IF outcome = "ok"
       THEN /\ conv_logged' = TRUE
            /\ pc' = "diff"
            /\ UNCHANGED <<exc, origin>>
       ELSE /\ exc' = "persist_error"
            /\ origin' = "persist"
            /\ pc' = "except"
            /\ UNCHANGED conv_logged
  /\ UNCHANGED <<instance_dirs, error_log, changes_diff, jsonl_exists, jsonl_ids,
                 config, plan, idx, polls, runs, backend, hist,
                 attempted, logged, diff_raised, call>>

\* Outcomes of create_unified_diff_file.
DiffOutcomes == {"ok", "raise_before_open", "raise_in_write"}

\* Mutant of CreateDiff: create_unified_diff_file is called outside an inner
\* try, so its exception reaches the handler of the instance.
CreateDiff_NoInnerTry(outcome) ==
  /\ pc = "diff"
  /\ ~HasEditCalls(cur) => outcome = "ok"
  /\ diff_raised' = (outcome # "ok")
  /\ changes_diff' = IF HasEditCalls(cur) /\ outcome # "raise_before_open"
                       THEN changes_diff \cup {cur}
                       ELSE changes_diff
  /\ IF outcome = "ok"
       THEN /\ attempted' = attempted \cup {cur}
            /\ idx' = idx + 1
            /\ pc' = "loop"
            /\ UNCHANGED <<exc, origin>>
       ELSE /\ exc' = "diff_error"
            /\ origin' = "diff"
            /\ pc' = "except"
            /\ UNCHANGED <<attempted, idx>>
  /\ UNCHANGED <<instance_dirs, result_json, error_log, conversation_log,
                 jsonl_exists, jsonl_ids, config, plan, polls, runs, backend,
                 hist, logged, conv_logged, call>>

\* async_run: create_unified_diff_file(instance_dir, conversation_summary) in
\* its own try. Without edit calls it returns at once; with edit calls it
\* writes changes.diff, or raises before the file is opened, or raises in the
\* write to the opened file; the exception is only logged.
CreateDiff(outcome) ==
  /\ pc = "diff"
  /\ ~HasEditCalls(cur) => outcome = "ok"
  /\ diff_raised' = (outcome # "ok")
  /\ changes_diff' = IF HasEditCalls(cur) /\ outcome # "raise_before_open"
                       THEN changes_diff \cup {cur}
                       ELSE changes_diff
  /\ attempted' = attempted \cup {cur}
  /\ idx' = idx + 1
  /\ pc' = "loop"
  /\ UNCHANGED <<instance_dirs, result_json, error_log, conversation_log,
                 jsonl_exists, jsonl_ids, config, plan, exc, origin, polls,
                 runs, backend, hist, logged, conv_logged, call>>

\* Outcomes of the write of error.log in the except block.
HandleOutcomes == {"ok", "raise_at_open", "raise_in_write"}

\* async_run's "except Exception": error.log is written, then continue. The
\* write is not guarded: when the open raises, or a write to the opened file
\* does (error.log then holds a truncated record), the exception leaves
\* async_run and run(), the iteration is not completed and the later
\* instances are not processed.
HandleException(outcome) ==
  /\ pc = "except"
  /\ CASE outcome = "ok" ->
            /\ error_log' = error_log \cup {cur}
            /\ logged' = exc
            /\ attempted' = attempted \cup {cur}
            /\ idx' = idx + 1
            /\ pc' = "loop"
            /\ UNCHANGED exc
       [] outcome = "raise_at_open" ->
            /\ exc' = "log_error"
            /\ pc' = "escaped"
            /\ UNCHANGED <<error_log, logged, attempted, idx>>
       [] outcome = "raise_in_write" ->
            /\ error_log' = error_log \cup {cur}
            /\ logged' = "truncated"
            /\ exc' = "log_error"
            /\ pc' = "escaped"
            /\ UNCHANGED <<attempted, idx>>
  /\ UNCHANGED <<instance_dirs, result_json, changes_diff, conversation_log,
                 jsonl_exists, jsonl_ids, config, plan, origin, polls, runs,
                 backend, hist, diffcur, call>>

Next ==
  \/ \E cap \in CapInputs, cc \in BOOLEAN : Construct(cap, cc)
  \/ \E ok \in BOOLEAN : LoopNext(ok)
  \/ RunDone
  \/ \E ok \in BOOLEAN : Checkout(ok)
  \/ \E o \in {"ok", "session_error", "tools_missing"} : BuildEnter(o)
  \/ \E ok \in BOOLEAN : IndexInvoke(ok)
  \/ \E res \in {"ready", "not_ready", "raise"} : Poll(res)
  \/ \E ok \in BOOLEAN : ClearAfterBuildFailure(ok)
  \/ \E ok \in BOOLEAN : CloseBuildSessions(ok)
  \/ \E ok \in BOOLEAN : SearchEnter(ok)
  \/ \E ok \in BOOLEAN, clear_index_tool \in BOOLEAN : AgentRun(ok, clear_index_tool)
  \/ \E ok \in BOOLEAN : ClearAfterSearch(ok)
  \/ \E ok \in BOOLEAN : CloseSearchSessions(ok)
  \/ \E edits \in BOOLEAN, outcome \in PersistOutcomes : Persist(edits, outcome)
  \/ \E outcome \in DiffOutcomes : CreateDiff(outcome)
  \/ \E outcome \in HandleOutcomes : HandleException(outcome)

Spec == Init /\ [][Next]_vars

\* The status loop ends when the backend answers with the readiness phrase or
\* an invocation raises; the backend is assumed to do one of the two at last.
BackendAnswers == \E res \in {"ready", "raise"} : Poll(res)

\* A first run over an output location that holds no record yet.
FreshInit ==
  /\ jsonl_exists = FALSE
  /\ jsonl_ids = {}
  /\ result_json = {}
  /\ instance_dirs = {}
  /\ error_log = {}
  /\ changes_diff = {}
  /\ conversation_log = [i \in InstanceIds |-> "none"]
  /\ ControlInit
  /\ call = NoCall

SpecBackendAnswers == FreshInit /\ [][Next]_vars /\ WF_vars(BackendAnswers)

\* ---------------------------------------------------------------------------
\* GrepRetrieval: the runner of run_grep.py over the same layout of the output
\* location. It builds no index, creates the directory of an instance only
\* after its search returned, writes result.json and conversation.log and no
\* changes.diff, and its handler writes no error.log.
\* ---------------------------------------------------------------------------

\* GrepRetrieval.__init__: BaseRetrieval.__init__ plans the run.
GrepConstruct(cap) ==
  /\ pc \in {"idle", "grep_constructed", "escaped"}
  /\ runs < MaxRuns
  /\ LET f == FilterExistingInstances(Dataset, jsonl_exists, jsonl_ids,
                                      instance_dirs, result_json)
     IN  /\ remaining_instances' = f.remaining
         /\ processed_count' = f.processed
         /\ instances' = PrepareInstances(cap, f.remaining, f.processed)
  /\ max_instances' = cap
  /\ retrieval_cc' = FALSE
  /\ runs' = runs + 1
  /\ pc' = "grep_constructed"
  /\ idx' = 1
  /\ exc' = "none"
  /\ origin' = "none"
  /\ search_ran' = FALSE
  /\ attempted' = {}
  /\ conv_logged' = FALSE
  /\ UNCHANGED <<store, polls, backend, build_started, clear_calls, clear_ok,
                 clear_raised, logged, diff_raised, call>>

\* GrepRetrieval.async_run: the loop takes the next instance. The subscripts
\* of the record stand before the try block; no directory is created here.
GrepLoopNext(ok) ==
  /\ pc \in {"grep_constructed", "grep_loop"}
  /\ idx <= Len(instances)
  /\ IF ok
       THEN /\ pc' = "grep_checkout"
            /\ exc' = "none"
            /\ origin' = "none"
       ELSE /\ pc' = "escaped"
            /\ exc' = "setup_error"
            /\ origin' = "loop"
  /\ search_ran' = FALSE
  /\ conv_logged' = FALSE
  /\ UNCHANGED <<store, config, plan, idx, polls, runs, backend, build_started,
                 clear_calls, clear_ok, clear_raised, attempted, logged,
                 diff_raised, call>>

\* GrepRetrieval.async_run: the loop is exhausted.
GrepRunDone ==
  /\ pc \in {"grep_constructed", "grep_loop"}
  /\ idx > Len(instances)
  /\ pc' = "idle"
  /\ UNCHANGED <<store, config, plan, idx, exc, origin, polls, runs, backend,
                 hist, attempted, logged>>
  /\ UNCHANGED <<diffcur, call>>

\* An exception starts to propagate out of step o of GrepRetrieval.async_run.
GrepRaise(kind, o) ==
  /\ exc' = kind
  /\ origin' = o
  /\ pc' = "grep_except"

\* clone_repo and ContextManager.__enter__; the build step is commented out.
GrepCheckout(ok) ==
  /\ pc = "grep_checkout"
  /\ IF ok
       THEN pc' = "grep_search" /\ UNCHANGED <<exc, origin>>
       ELSE GrepRaise("checkout_error", "checkout")
  /\ UNCHANGED <<store, config, plan, idx, polls, runs, backend, hist,
                 attempted, logged>>
  /\ UNCHANGED <<diffcur, call>>

\* GrepRetrieval.async_search up to the agent run: the sessions and their
\* tools, the Evaluator, the prompt.
GrepSearchEnter(ok) ==
  /\ pc = "grep_search"
  /\ IF ok
       THEN pc' = "grep_agent" /\ UNCHANGED <<exc, origin>>
       ELSE GrepRaise("session_error", "search_enter")
  /\ UNCHANGED <<store, config, plan, idx, polls, runs, backend, hist,
                 attempted, logged>>
  /\ UNCHANGED <<diffcur, call>>

\* evaluator.async_run inside the async with block, without try/finally.
GrepAgentRun(ok) ==
  /\ pc = "grep_agent"
  /\ search_ran' = TRUE
  /\ exc' = IF ok THEN "none" ELSE "search_error"
  /\ origin' = IF ok THEN "none" ELSE "agent"
  /\ pc' = "grep_close"
  /\ UNCHANGED <<store, config, plan, idx, polls, runs, backend, build_started,
                 clear_calls, clear_ok, clear_raised, attempted, logged>>
  /\ UNCHANGED <<diffcur, call>>

\* The exit of the async with block of GrepRetrieval.async_search.
GrepCloseSessions(ok) ==
  /\ pc = "grep_close"
  /\ IF ok
       THEN /\ pc' = IF exc = "none" THEN "grep_persist" ELSE "grep_except"
            /\ UNCHANGED <<exc, origin>>
       ELSE /\ exc' = "session_error"
            /\ origin' = IF exc = "none" THEN "search_close" ELSE origin
            /\ pc' = "grep_except"
  /\ UNCHANGED <<store, config, plan, idx, polls, runs, backend, hist,
                 attempted, logged>>
  /\ UNCHANGED <<diffcur, call>>

\* Outcomes of the statements after the with block: os.makedirs raises; the
\* directory is made and an exception follows before result.json is opened;
\* the other outcomes are those of CustomRetrieval's.
GrepPersistOutcomes == PersistOutcomes \cup {"raise_at_makedirs"}

\* GrepRetrieval.async_run after the with block: the directory of the
\* instance is created, then result.json and conversation.log are written;
\* no changes.diff is. The iteration ends here when nothing raises.
GrepPersist(edits, outcome) ==
  /\ pc = "grep_persist"
  /\ outcome \in {"raise_at_makedirs", "raise_before_write", "raise_in_result"} => ~edits
  /\ instance_dirs' = IF outcome = "raise_at_makedirs"
                        THEN instance_dirs
                        ELSE instance_dirs \cup {cur}
  /\ result_json' = IF outcome \in {"raise_at_makedirs", "raise_before_write"}
                      THEN result_json
                      ELSE result_json \cup {cur}
  /\ conversation_log' =
       IF outcome \in {"ok", "raise_in_log"}
         THEN [conversation_log EXCEPT
                 ![cur] = IF edits THEN "edit_calls" ELSE "no_edit_calls"]
         ELSE conversation_log
  /\ IF outcome = "ok"
       THEN /\ conv_logged' = TRUE
            /\ attempted' = attempted \cup {cur}
            /\ idx' = idx + 1
            /\ pc' = "grep_loop"
            /\ UNCHANGED <<exc, origin>>
       ELSE /\ exc' = "persist_error"
            /\ origin' = "persist"
            /\ pc' = "grep_except"
            /\ UNCHANGED <<conv_logged, attempted, idx>>
  /\ UNCHANGED <<error_log, changes_diff, jsonl_exists, jsonl_ids, config, plan,
                 polls, runs, backend, hist, logged, diff_raised, call>>

\* GrepRetrieval.async_run's "except Exception": the error goes to the logger
\* only, then continue.
GrepHandleException ==
  /\ pc = "grep_except"
  /\ attempted' = attempted \cup {cur}
  /\ idx' = idx + 1
  /\ pc' = "grep_loop"
  /\ UNCHANGED <<store, config, plan, exc, origin, polls, runs, backend, hist,
                 logged, diffcur, call>>

NextGrep ==
  \/ \E cap \in CapInputs : GrepConstruct(cap)
  \/ \E ok \in BOOLEAN : GrepLoopNext(ok)
  \/ GrepRunDone
  \/ \E ok \in BOOLEAN : GrepCheckout(ok)
  \/ \E ok \in BOOLEAN : GrepSearchEnter(ok)
  \/ \E ok \in BOOLEAN : GrepAgentRun(ok)
  \/ \E ok \in BOOLEAN : GrepCloseSessions(ok)
  \/ \E edits \in BOOLEAN, outcome \in GrepPersistOutcomes : GrepPersist(edits, outcome)
  \/ GrepHandleException

SpecGrep == Init /\ [][NextGrep]_vars

\* ---------------------------------------------------------------------------
\* Pure functions of the evaluation: each is applied to inputs drawn from a
\* bounded set, while the pipeline stays in its initial state.
\* ---------------------------------------------------------------------------

pipeline ==
  <<store, config, plan, pc, idx, exc, origin, polls, runs, backend, hist,
    attempted, logged, diffcur>>

\* The pipeline before any run, over an empty output directory.
Idle == StoreInit /\ ControlInit /\ ~jsonl_exists /\ result_json = {}

\* File paths as character sequences: plain, with one leading separator, with
\* two leading separators.
FilePaths ==
  {<<"a">>, <<"/", "a">>, <<"/", "/", "a">>, <<"b">>, <<"c">>}

RECURSIVE SeqsUpTo(_, _)
SeqsUpTo(S, n) ==
  IF n = 0
    THEN {<<>>}
    ELSE LET shorter == SeqsUpTo(S, n - 1)
         IN  shorter \cup {Append(q, x) : q \in shorter, x \in S}

FileLists == SeqsUpTo(FilePaths, MaxFiles)

\* normalize_file_path: one leading "/" is removed.
normalize_file_path(file_path) ==
  IF Len(file_path) > 0 /\ file_path[1] = "/" THEN Tail(file_path) ELSE file_path

RECURSIVE Gcd(_, _)
Gcd(a, b) == IF b = 0 THEN a ELSE Gcd(b, a % b)

\* The quotient n / d of two counts, as a reduced fraction <<numerator,
\* denominator>>; the rounding of Python's floats is not modelled.
Frac(n, d) == IF n = 0 THEN <<0, 1>> ELSE <<n \div Gcd(n, d), d \div Gcd(n, d)>>

Zero == <<0, 1>>
FracAdd(x, y) == Frac(x[1] * y[2] + y[1] * x[2], x[2] * y[2])
FracMul(x, y) == Frac(x[1] * y[1], x[2] * y[2])
FracDiv(x, y) == Frac(x[1] * y[2], x[2] * y[1])

\* calculate_metrics(hits, oracles).
calculate_metrics(hits, oracles) ==
  IF hits = <<>> /\ oracles = <<>>
    THEN [precision |-> Zero, recall |-> Zero, f1 |-> Zero]
    ELSE LET hits_set == {normalize_file_path(hits[k]) : k \in DOMAIN hits}
             oracles_set == {normalize_file_path(oracles[k]) : k \in DOMAIN oracles}
             intersection == hits_set \cap oracles_set
             precision == IF hits_set # {}
                            THEN Frac(Cardinality(intersection), Cardinality(hits_set))
                            ELSE Zero
             recall == IF oracles_set # {}
                         THEN Frac(Cardinality(intersection), Cardinality(oracles_set))
                         ELSE Zero
             f1 == IF FracAdd(precision, recall)[1] > 0
                     THEN FracDiv(FracMul(<<2, 1>>, FracMul(precision, recall)),
                                  FracAdd(precision, recall))
                     ELSE Zero
         IN  [precision |-> precision, recall |-> recall, f1 |-> f1,
              num_hits |-> Cardinality(hits_set),
              num_oracles |-> Cardinality(oracles_set),
              num_correct |-> Cardinality(intersection)]

MetricsInit ==
  /\ Idle
  /\ call \in {[op |-> "metrics_in", hits |-> h, oracles |-> o] :
                 h \in FileLists, o \in FileLists}

\* One call of calculate_metrics.
ApplyMetrics ==
  /\ call.op = "metrics_in"
  /\ call' = [op |-> "metrics", hits |-> call.hits, oracles |-> call.oracles,
               result |-> calculate_metrics(call.hits, call.oracles)]
  /\ UNCHANGED pipeline

NextMetrics == ApplyMetrics

SpecMetrics == MetricsInit /\ [][NextMetrics]_vars

\* ---------------------------------------------------------------------------
\* extract_file_paths_from_edits: the hits of a search, read off the messages
\* of the agent's response.
\* ---------------------------------------------------------------------------

\* The checkout of the repository (codebase_path, absolute and normalised).
CodebasePath == <<"/", "r">>

\* Paths as character sequences, none with whitespace: inside the checkout
\* (absolute and relative, and absolute with two leading separators), outside
\* it, in a sibling directory whose name starts with the name of the checkout,
\* and relative leading upwards.
HitPaths ==
  { <<"/", "r", "/", "a">>,
    <<"a">>,
    <<"/", "/", "r", "/", "a">>,
    <<"/", "r", "/", "b">>,
    <<"/", "x", "/", "b">>,
    <<"/", "r", "2", "/", "c">>,
    <<".", ".", "/", "d">> }

\* A line of the concatenated message contents. src: the message is the output
\* of the edit tool, or anything else (issue text, model text, output of
\* another tool). kind: the line holds "Successfully modified file: <path>"
\* (ack), or text that matches the tool-call pattern edit...file_path: '<path>'
\* (call), or neither (plain). The edit tool only ever returns an ack.
NoPath == <<>>
Lines ==
  {[src |-> "edit_tool", kind |-> "ack", path |-> p] : p \in HitPaths}
    \cup {[src |-> "other", kind |-> k, path |-> p] :
            k \in {"ack", "call"}, p \in HitPaths}
    \cup {[src |-> "other", kind |-> "plain", path |-> NoPath]}

Transcripts == SeqsUpTo(Lines, MaxLines)

\* os.path.isabs
IsAbs(p) == Len(p) > 0 /\ p[1] = "/"

\* str.startswith
StartsWith(s, prefix) ==
  Len(s) >= Len(prefix) /\ SubSeq(s, 1, Len(prefix)) = prefix

\* The components of a path between its separators, empty ones dropped.
RECURSIVE Components(_)
Components(p) ==
  IF p = <<>>
    THEN <<>>
    ELSE LET seps == {k \in 1..Len(p) : p[k] = "/"}
             k == IF seps = {}
                    THEN Len(p) + 1
                    ELSE CHOOSE m \in seps : \A n \in seps : m <= n
             head == SubSeq(p, 1, k - 1)
             rest == SubSeq(p, k + 1, Len(p))
         IN  IF head = <<>>
               THEN Components(rest)
               ELSE <<head>> \o Components(rest)

\* posixpath.normpath on the components of an absolute path: "." is dropped,
\* ".." removes the component before it.
RECURSIVE Resolve(_, _)
Resolve(comps, acc) ==
  IF comps = <<>>
    THEN acc
    ELSE LET c == Head(comps)
         IN  IF c = <<".">>
               THEN Resolve(Tail(comps), acc)
               ELSE IF c = <<".", ".">>
                      THEN Resolve(Tail(comps),
                                   IF acc = <<>>
                                     THEN acc
                                     ELSE SubSeq(acc, 1, Len(acc) - 1))
                      ELSE Resolve(Tail(comps), Append(acc, c))

RECURSIVE JoinPath(_)
JoinPath(comps) ==
  IF comps = <<>>
    THEN <<>>
    ELSE IF Len(comps) = 1
           THEN comps[1]
           ELSE comps[1] \o <<"/">> \o JoinPath(Tail(comps))

\* posixpath.normpath: exactly two leading separators are kept, one or three
\* and more become one.
InitialSlashes(p) ==
  IF StartsWith(p, <<"/", "/">>) /\ ~StartsWith(p, <<"/", "/", "/">>)
    THEN <<"/", "/">>
    ELSE <<"/">>

\* os.path.abspath of an absolute path.
AbsPath(p) == InitialSlashes(p) \o JoinPath(Resolve(Components(p), <<>>))

\* os.path.relpath(path, start) for two absolute normalised paths.
RelPath(path, start) ==
  LET path_list == Components(path)
      start_list == Components(start)
      shorter == IF Len(path_list) < Len(start_list)
                   THEN Len(path_list)
                   ELSE Len(start_list)
      i == Cardinality({k \in 1..shorter :
                          SubSeq(path_list, 1, k) = SubSeq(start_list, 1, k)})
      rel_list == [k \in 1..(Len(start_list) - i) |-> <<".", ".">>]
                    \o SubSeq(path_list, i + 1, Len(path_list))
  IN  IF rel_list = <<>> THEN <<".">> ELSE JoinPath(rel_list)

\* _normalize_to_relative_path(file_path, codebase_path)
normalize_to_relative_path(file_path, codebase_path) ==
  IF IsAbs(file_path)
    THEN IF StartsWith(AbsPath(file_path), codebase_path)
           THEN RelPath(AbsPath(file_path), codebase_path)
           ELSE file_path
    ELSE file_path

\* The body of "if match:": the path is made relative and appended unless it
\* was seen before.
AddMatch(file_paths, file_path, codebase_path) ==
  LET rel_path == normalize_to_relative_path(file_path, codebase_path)
  IN  IF rel_path # <<>> /\ rel_path \notin RangeOf(file_paths)
        THEN Append(file_paths, rel_path)
        ELSE file_paths

\* The loop over the lines of the content: edit_pattern, then
\* tool_call_pattern, on each line.
RECURSIVE ExtractFrom(_, _, _)
ExtractFrom(lines, file_paths, codebase_path) ==
  IF lines = <<>>
    THEN file_paths
    ELSE LET line == Head(lines)
             after_ack == IF line.kind = "ack"
                            THEN AddMatch(file_paths, line.path, codebase_path)
                            ELSE file_paths
             after_call == IF line.kind = "call"
                             THEN AddMatch(after_ack, line.path, codebase_path)
                             ELSE after_ack
         IN  ExtractFrom(Tail(lines), after_call, codebase_path)

extract_file_paths_from_edits(lines, codebase_path) ==
  ExtractFrom(lines, <<>>, codebase_path)

HitsInit ==
  /\ Idle
  /\ call \in {[op |-> "hits_in", lines |-> t] : t \in Transcripts}

\* One call of extract_file_paths_from_edits on the response of the agent.
ApplyHits ==
  /\ call.op = "hits_in"
  /\ call' = [op |-> "hits", lines |-> call.lines,
               result |-> extract_file_paths_from_edits(call.lines, CodebasePath)]
  /\ UNCHANGED pipeline

NextHits == ApplyHits

SpecHits == HitsInit /\ [][NextHits]_vars

\* ---------------------------------------------------------------------------
\* extract_oracle_files_from_patch: the oracle files of an instance.
\* ---------------------------------------------------------------------------

\* The text "--- a/" as one token of a line; the other tokens of a line are
\* pieces of text that hold no part of it.
Header == "--- a/"

\* Lines of a patch: the headers of x and y, a removed line whose text quotes a
\* header, an added line, a header prefix with nothing behind it, a hunk mark.
PatchLines ==
  { <<Header, "x">>,
    <<Header, "y">>,
    <<"-see ", Header, "y">>,
    <<"+", "x">>,
    <<Header>>,
    <<"@@">> }

\* instance.get("patch", ""): None, or a text of up to MaxPatchLines lines.
Patches ==
  {[given |-> FALSE, lines |-> <<>>]}
    \cup {[given |-> TRUE, lines |-> t] : t \in SeqsUpTo(PatchLines, MaxPatchLines)}

\* The matches of r"\-\-\- a/(.+)" in one line: the pattern is searched at every
\* position, "." stops at the end of the line, and group 1 is the rest of the
\* line behind the first "--- a/" that has text behind it.
FindallInLine(line) ==
  LET at == {k \in 1..(Len(line) - 1) : line[k] = Header}
  IN  IF at = {}
        THEN {}
        ELSE LET k == CHOOSE m \in at : \A n \in at : m <= n
             IN  {SubSeq(line, k + 1, Len(line))}

\* extract_oracle_files_from_patch(patch); the list made of a set is modelled
\* as the set.
extract_oracle_files_from_patch(patch) ==
  IF ~patch.given \/ patch.lines = <<>>
    THEN {}
    ELSE UNION {FindallInLine(patch.lines[k]) : k \in DOMAIN patch.lines}

OracleInit ==
  /\ Idle
  /\ call \in {[op |-> "oracle_in", patch |-> p] : p \in Patches}

\* One call of extract_oracle_files_from_patch.
ApplyOracle ==
  /\ call.op = "oracle_in"
  /\ call' = [op |-> "oracle", patch |-> call.patch,
               result |-> extract_oracle_files_from_patch(call.patch)]
  /\ UNCHANGED pipeline

NextOracle == ApplyOracle

SpecOracle == OracleInit /\ [][NextOracle]_vars

\* ---------------------------------------------------------------------------
\* create_unified_diff_file: the diff reconstructed from the edit calls of a
\* transcript.
\* ---------------------------------------------------------------------------

\* Characters of old_string and new_string as the agent passes them: a letter,
\* a newline, a tab. Quotes, braces and backslashes are left out, so the
\* regular expressions of the extraction delimit the arguments as written.
TextChars == {"a", "NL", "TAB"}

Texts == SeqsUpTo(TextChars, MaxText)

\* The files an edit call can name: two readable files, a path that does not
\* exist, and an existing file that cannot be read as utf-8 text.
FileF == <<"/", "r", "/", "f">>
FileG == <<"/", "r", "/", "g">>
FileMissing == <<"/", "r", "/", "m">>
FileUnreadable == <<"/", "r", "/", "u">>
EditFiles == {FileF, FileG, FileMissing, FileUnreadable}

\* os.path.exists(file_path)
Exists(file_path) == file_path \in {FileF, FileG, FileUnreadable}

\* open(file_path, "r", encoding="utf-8") and f.read() do not raise.
Readable(file_path) == file_path \in {FileF, FileG}

\* f.read(): "a\n\ta\naa" and "\ta".
Content(file_path) ==
  IF file_path = FileF
    THEN <<"a", "NL", "TAB", "a", "NL", "a", "a">>
    ELSE <<"TAB", "a">>

\* The working directory of the evaluation process.
Cwd == <<"/", "w">>

\* The arguments of an edit call.
Edits ==
  {[file_path |-> f, old_string |-> o, new_string |-> n] :
     f \in EditFiles, o \in Texts, n \in Texts}

\* Three fixed calls: located, file missing, text absent.
RepEdits ==
  { [file_path |-> FileF, old_string |-> <<"a", "a">>, new_string |-> <<>>],
    [file_path |-> FileMissing, old_string |-> <<"a">>, new_string |-> <<"a", "a">>],
    [file_path |-> FileG, old_string |-> <<"NL">>, new_string |-> <<"a">>] }

\* The edit calls of a transcript: any call of edits, alone or next to one of
\* the fixed calls.
EditLists(edits) ==
  {<<>>} \cup {<<e>> : e \in edits}
    \cup {<<e, r>> : e \in edits, r \in RepEdits}
    \cup {<<r, e>> : e \in edits, r \in RepEdits}

\* The characters that delimit a quoted string.
Quotes == {"SQ", "DQ"}

\* The body of repr(s) between quotes q: a backslash and the quote q are
\* preceded by a backslash, a newline is written backslash n, a tab backslash t.
RECURSIVE Escape(_, _)
Escape(s, q) ==
  IF s = <<>>
    THEN <<>>
    ELSE (CASE Head(s) = "NL" -> <<"BS", "n">>
            [] Head(s) = "TAB" -> <<"BS", "t">>
            [] Head(s) = "BS" -> <<"BS", "BS">>
            [] Head(s) = q -> <<"BS", q>>
            [] OTHER -> <<Head(s)>>) \o Escape(Tail(s), q)

\* repr(s) of a str: double quotes when s holds a single quote and no double
\* quote, single quotes otherwise.
Repr(s) ==
  LET q == IF (\E k \in DOMAIN s : s[k] = "SQ") /\ ~(\E k \in DOMAIN s : s[k] = "DQ")
             THEN "DQ"
             ELSE "SQ"
  IN  <<q>> \o Escape(s, q) \o <<q>>

\* The names of the arguments of an edit call.
Keys == {"file_path", "old_string", "new_string"}

\* The letters of a name: the n of new_string is a symbol of its own, the
\* letter that the un-escaping of the extractor looks for after a backslash;
\* every other run of letters is one symbol.
Spell(key) == IF key = "new_string" THEN <<"n", "ew_string">> ELSE <<key>>

\* A key of the dict as repr writes it: the name between single quotes.
Quoted(key) == <<"SQ">> \o Spell(key) \o <<"SQ">>

\* extract_conversation_summary: the line f"   Arguments: {tool_args}" of one
\* edit call, the repr of the dict of its arguments behind three spaces.
FormatArguments(e) ==
  <<"SP", "SP", "SP", "Arguments:", "SP", "LB">>
    \o Quoted("file_path") \o <<":", "SP">>
    \o Repr(e.file_path)
    \o <<",", "SP">> \o Quoted("old_string") \o <<":", "SP">> \o Repr(e.old_string)
    \o <<",", "SP">> \o Quoted("new_string") \o <<":", "SP">> \o Repr(e.new_string)
    \o <<"RB">>

\* str.replace(old, new): the occurrences of old from left to right.
RECURSIVE Replace(_, _, _)
Replace(s, old, new) ==
  IF Len(s) < Len(old)
    THEN s
    ELSE IF SubSeq(s, 1, Len(old)) = old
           THEN new \o Replace(SubSeq(s, Len(old) + 1, Len(s)), old, new)
           ELSE <<Head(s)>> \o Replace(Tail(s), old, new)

\* .replace("\\n", "\n").replace("\\'", "'"): backslash n becomes a newline,
\* then backslash quote a quote; nothing else is unescaped.
Unescape(s) == Replace(Replace(s, <<"BS", "n">>, <<"NL">>), <<"BS", "SQ">>, <<"SQ">>)

\* The position after \s* from position p on.
RECURSIVE SkipSpaces(_, _)
SkipSpaces(line, p) ==
  IF p <= Len(line) /\ line[p] \in {"SP", "NL", "TAB"}
    THEN SkipSpaces(line, p + 1)
    ELSE p

\* s in text: the positions where s occurs.
Find(text, s) ==
  {k \in 1..(Len(text) - Len(s) + 1) : SubSeq(text, k, k + Len(s) - 1) = s}

\* The positions where re.search can begin a match of a pattern that begins
\* with the quoted key and ":".
KeyStarts(line, key) == Find(line, Quoted(key) \o <<":">>)

\* The position after the quoted key at k, ":" and \s*.
AfterColon(line, key, k) == SkipSpaces(line, k + Len(Quoted(key)) + 1)

\* re.search(key + r":\s*", args_text): the position after the leftmost
\* quoted key that ":" follows, and \s*; 0 if the line holds none.
AfterKey(line, key) ==
  LET at == KeyStarts(line, key)
  IN  IF at = {}
        THEN 0
        ELSE AfterColon(line, key, CHOOSE x \in at : \A y \in at : x <= y)

\* re.search(r"'file_path':\s*'([^']*)'", args_text): the match's group 1 in a
\* tuple, None without a match. The match begins at the leftmost quoted key
\* from which the whole pattern matches: a single quote after \s*, and a
\* single quote somewhere behind it; the group ends at the first one.
file_path_match(line) ==
  LET Open(k) == AfterColon(line, "file_path", k)
      Ends(k) == {e \in (Open(k) + 1)..Len(line) : line[e] = "SQ"}
      Matches(k) == Open(k) <= Len(line) /\ line[Open(k)] = "SQ" /\ Ends(k) # {}
      at == {k \in KeyStarts(line, "file_path") : Matches(k)}
  IN  IF at = {}
        THEN <<>>
        ELSE LET k == CHOOSE x \in at : \A y \in at : x <= y
             IN  <<SubSeq(line, Open(k) + 1,
                          (CHOOSE e \in Ends(k) : \A f \in Ends(k) : e <= f) - 1)>>

\* The lookahead (?=,\s*'new_string') at position p.
BeforeNewString(line, p) ==
  /\ p <= Len(line)
  /\ line[p] = ","
  /\ LET r == SkipSpaces(line, p + 1)
     IN  r \in Find(line, Quoted("new_string"))

\* The lookahead (?=\s*}) at position p.
BeforeBrace(line, p) ==
  LET r == SkipSpaces(line, p)
  IN  r <= Len(line) /\ line[r] = "RB"

\* re.search(key + r":\s*[\"'](.*?)[\"']" + lookahead, args_text, re.DOTALL):
\* the match begins at the leftmost quoted key from which the whole pattern
\* matches, and its group is the shortest text after the opening quote that a
\* quote in front of the lookahead ends; the lookahead is the one for
\* next_key, "new_string" or "}".
quoted_match(line, key, next_key) ==
  LET Open(k) == AfterColon(line, key, k)
      Ends(k) == {e \in (Open(k) + 1)..Len(line) :
                    /\ line[e] \in Quotes
                    /\ IF next_key = "new_string"
                         THEN BeforeNewString(line, e + 1)
                         ELSE BeforeBrace(line, e + 1)}
      Matches(k) == Open(k) <= Len(line) /\ line[Open(k)] \in Quotes /\ Ends(k) # {}
      at == {k \in KeyStarts(line, key) : Matches(k)}
  IN  IF at = {}
        THEN <<>>
        ELSE LET k == CHOOSE x \in at : \A y \in at : x <= y
             IN  <<SubSeq(line, Open(k) + 1,
                          (CHOOSE e \in Ends(k) : \A f \in Ends(k) : e <= f) - 1)>>

old_string_match(line) == quoted_match(line, "old_string", "new_string")

new_string_match(line) == quoted_match(line, "new_string", "}")

\* str.split("\n") from position p on: the text up to the next newline, then
\* the lines behind it.
RECURSIVE SplitFrom(_, _)
SplitFrom(text, p) ==
  LET nl == {k \in p..Len(text) : text[k] = "NL"}
  IN  IF nl = {}
        THEN <<SubSeq(text, p, Len(text))>>
        ELSE LET k == CHOOSE x \in nl : \A y \in nl : x <= y
             IN  <<SubSeq(text, p, k - 1)>> \o SplitFrom(text, k + 1)

\* log_content.split("\n")
SplitLines(text) == SplitFrom(text, 1)

\* "\n".join(lines)
RECURSIVE JoinLines(_)
JoinLines(lines) ==
  IF lines = <<>>
    THEN <<>>
    ELSE IF Len(lines) = 1
           THEN lines[1]
           ELSE lines[1] \o <<"NL">> \o JoinLines(Tail(lines))

\* args_text for the line i: the line when it holds "}", else the line and
\* the lines behind it up to the first one that holds "}", the rest of the log
\* when none does, joined by newlines.
args_text(lines, i) ==
  IF Find(lines[i], <<"RB">>) # {}
    THEN lines[i]
    ELSE LET closing == {j \in (i + 1)..Len(lines) : Find(lines[j], <<"RB">>) # {}}
             last == IF closing = {}
                       THEN Len(lines)
                       ELSE CHOOSE j \in closing : \A m \in closing : j <= m
         IN  JoinLines(SubSeq(lines, i, last))

\* The loop body of extract_edit_calls_from_conversation_log for the line i:
\* the edit call it appends, in a tuple, or nothing.
EditCallOf(lines, i) ==
  IF /\ Find(lines[i], <<"Arguments:">>) # {}
     /\ Find(lines[i], Quoted("file_path")) # {}
    THEN LET text == args_text(lines, i)
         IN  IF /\ file_path_match(text) # <<>>
                /\ old_string_match(text) # <<>>
                /\ new_string_match(text) # <<>>
               THEN <<[file_path |-> file_path_match(text)[1],
                       old_string |-> Unescape(old_string_match(text)[1]),
                       new_string |-> Unescape(new_string_match(text)[1])]>>
               ELSE <<>>
    ELSE <<>>

\* The while loop of extract_edit_calls_from_conversation_log from the line i
\* on: i advances by one line, also behind a block of several lines.
RECURSIVE EditCallsFrom(_, _)
EditCallsFrom(lines, i) ==
  IF i > Len(lines)
    THEN <<>>
    ELSE EditCallOf(lines, i) \o EditCallsFrom(lines, i + 1)

\* extract_edit_calls_from_conversation_log(log_content)
extract_edit_calls_from_conversation_log(log_content) ==
  EditCallsFrom(SplitLines(log_content), 1)

\* How a chat model reports the tool invocations of a message: in the
\* tool_calls attribute with a str content, as tool_use items of a list
\* content that langchain also parses into tool_calls, or as tool_use items
\* alone.
CallFormats == {"tool_calls", "content_and_tool_calls", "content"}

\* How an agent run carries its edit calls: the format of its AI messages, and
\* whether every call has a message of its own or one message holds them all.
Renderings ==
  {[format |-> f, grouping |-> g] :
     f \in CallFormats, g \in {"separate", "together"}}

PlainRendering == [format |-> "tool_calls", grouping |-> "separate"]

\* The AI messages of the run that invoke the edit tool, each without text.
EditMessages(edits, grouping) ==
  IF grouping = "together"
    THEN IF edits = <<>> THEN <<>> ELSE <<[text |-> <<>>, calls |-> edits]>>
    ELSE [k \in DOMAIN edits |-> [text |-> <<>>, calls |-> <<edits[k]>>]]

\* The AI messages of a run: one that holds text and invokes nothing, then the
\* messages that invoke the edit tool.
RunMessages(edits, text, grouping) ==
  <<[text |-> text, calls |-> <<>>]>> \o EditMessages(edits, grouping)

\* summary_lines.append("=" * 50)
Separator == <<"=====">>

\* The entries extract_conversation_summary appends for one tool invocation:
\* the tool's name between quotes, the id, the arguments, a separator.
ToolCallLines(e) ==
  << <<"Tool Call:", "SP", "SQ", "edit", "SQ">>,
     <<"SP", "SP", "SP", "ID:", "SP", "id">>,
     FormatArguments(e),
     Separator >>

\* The entries of the invocations of calls, in their order.
RECURSIVE CallLines(_)
CallLines(calls) ==
  IF calls = <<>>
    THEN <<>>
    ELSE ToolCallLines(Head(calls)) \o CallLines(Tail(calls))

\* extract_conversation_summary on one AI message: the text of the message (a
\* str content, or the text item of a list content) as it is, newlines
\* included, and a separator; then the loop over the tool_use items of a list
\* content writes the entries of each, then the loop over message.tool_calls
\* writes them for each entry, also when the entries are the calls of the
\* tool_use items.
MessageLines(message, format) ==
  << <<"LLM:", "SP">> \o message.text, Separator >>
    \o (IF format = "tool_calls" THEN <<>> ELSE CallLines(message.calls))
    \o (IF format = "content" THEN <<>> ELSE CallLines(message.calls))

\* The loop of extract_conversation_summary over the messages.
RECURSIVE SummaryLines(_, _)
SummaryLines(messages, format) ==
  IF messages = <<>>
    THEN <<>>
    ELSE MessageLines(Head(messages), format)
           \o SummaryLines(Tail(messages), format)

\* extract_conversation_summary: the conversation log of an agent run whose
\* first AI message holds text and whose later ones made the edit calls of
\* edits: the heading, a separator and the entries of the messages, joined by
\* newlines.
ConversationLog(edits, text, rendering) ==
  JoinLines(<< <<"Conversation Summary:">>, Separator >>
              \o SummaryLines(RunMessages(edits, text, rendering.grouping),
                              rendering.format))

\* Texts of a message that quote the arguments of an edit call e, as a file
\* or an answer that shows an earlier log does: the line of the arguments,
\* the arguments spread over three lines, and the beginning of the line.
QuotedBlocks(e) ==
  { FormatArguments(e),
    <<"Arguments:", "SP", "LB">> \o Quoted("file_path") \o <<":", "SP">>
      \o Repr(e.file_path) \o <<",", "NL", "SP">>
      \o Quoted("old_string") \o <<":", "SP">> \o Repr(e.old_string)
      \o <<",", "NL", "SP">>
      \o Quoted("new_string") \o <<":", "SP">> \o Repr(e.new_string) \o <<"RB">>,
    <<"Arguments:", "SP", "LB">> \o Quoted("file_path") \o <<":", "SP">>
      \o Repr(e.file_path) \o <<",">> }

\* content.find(old_string): the positions (from 0) where old_string occurs.
Occurrences(content, old_string) ==
  {pos \in 0..(Len(content) - Len(old_string)) :
     SubSeq(content, pos + 1, pos + Len(old_string)) = old_string}

\* None as the empty tuple, a line number n as <<n>>.
None == <<>>

\* find_line_number_for_old_string(file_path, old_string)
find_line_number_for_old_string(file_path, old_string) ==
  IF ~Readable(file_path)
    THEN None
    ELSE LET content == Content(file_path)
             found == Occurrences(content, old_string)
         IN  IF found = {}
               THEN None
               ELSE LET pos == CHOOSE p \in found : \A q \in found : p <= q
                    IN  <<Cardinality({k \in 1..pos : content[k] = "NL"}) + 1>>

\* generate_unified_diff(file_path, old_string, new_string): the annotation and
\* the file labels of the diff; difflib.unified_diff yields nothing, no file
\* labels either, for equal inputs. The hunks are not modelled.
generate_unified_diff(file_path, old_string, new_string) ==
  LET rel_path == IF Exists(file_path)
                    THEN RelPath(AbsPath(file_path), Cwd)
                    ELSE file_path
  IN  [start_line |-> find_line_number_for_old_string(file_path, old_string),
       fromfile |-> IF old_string # new_string
                      THEN <<"a", "/">> \o rel_path
                      ELSE None,
       tofile |-> IF old_string # new_string
                    THEN <<"b", "/">> \o rel_path
                    ELSE None]

\* Mutant of DiffSections: the reconstruction stops at the first edit call
\* whose old_string is not located.
DiffSections_AbortOnUnlocated(edit_calls) ==
  LET unlocated == {k \in DOMAIN edit_calls :
                      find_line_number_for_old_string(
                        edit_calls[k].file_path, edit_calls[k].old_string) = None}
      last == IF unlocated = {}
                THEN Len(edit_calls)
                ELSE (CHOOSE k \in unlocated : \A m \in unlocated : k <= m) - 1
  IN  [k \in 1..last |->
         [edit |-> k,
          file_path |-> edit_calls[k].file_path,
          diff |-> generate_unified_diff(edit_calls[k].file_path,
                                         edit_calls[k].old_string,
                                         edit_calls[k].new_string)]]

\* The loop of create_unified_diff_file: "# Edit i: file_path" and the diff of
\* every edit call.
DiffSections(edit_calls) ==
  [k \in DOMAIN edit_calls |->
     [edit |-> k,
      file_path |-> edit_calls[k].file_path,
      diff |-> generate_unified_diff(edit_calls[k].file_path,
                                     edit_calls[k].old_string,
                                     edit_calls[k].new_string)]]

\* create_unified_diff_file(instance_dir, conversation_summary): whether
\* changes.diff is written, and its sections.
create_unified_diff_file(conversation_summary) ==
  LET edit_calls == extract_edit_calls_from_conversation_log(conversation_summary)
  IN  IF edit_calls = <<>>
        THEN [written |-> FALSE, sections |-> <<>>]
        ELSE [written |-> TRUE, sections |-> DiffSections(edit_calls)]

\* Every list of edit calls in the plain rendering, the lists of the fixed
\* calls in every rendering, and the lists of the fixed calls behind a text
\* that quotes the arguments of one of them; no text otherwise.
DiffInit ==
  /\ Idle
  /\ call \in {[op |-> "diff_in", edits |-> l, text |-> <<>>,
                rendering |-> PlainRendering] : l \in EditLists(Edits)}
               \cup {[op |-> "diff_in", edits |-> l, text |-> <<>>, rendering |-> r] :
                       l \in EditLists(RepEdits), r \in Renderings}
               \cup {[op |-> "diff_in", edits |-> l, text |-> x,
                      rendering |-> PlainRendering] :
                       l \in EditLists(RepEdits),
                       x \in UNION {QuotedBlocks(e) : e \in RepEdits}}

\* One call of create_unified_diff_file on the conversation log of a run.
ApplyDiff ==
  /\ call.op = "diff_in"
  /\ call' = [op |-> "diff", edits |-> call.edits, text |-> call.text,
               rendering |-> call.rendering,
               result |-> create_unified_diff_file(
                            ConversationLog(call.edits, call.text, call.rendering))]
  /\ UNCHANGED pipeline

NextDiff == ApplyDiff

SpecDiff == DiffInit /\ [][NextDiff]_vars

\* ---------------------------------------------------------------------------
\* _load_tools_from_sessions: the tools assembled from the opened sessions.
\* ---------------------------------------------------------------------------

\* retrieval_types as validated by CustomRetrieval.__init__.
RetrievalTypes == {{"cc"}, {"grep"}, {"cc", "grep"}}

\* The names of the tools a server can offer.
FsToolNames == {"read_file", "list_directory", "directory_tree", "write_file"}
EditToolNames == {"edit"}
CcToolNames == {"index_codebase", "get_indexing_status", "clear_index", "search_code"}
GrepToolLists == {<<>>, <<"search_text">>}

\* A tool handle that was not found.
NoTool == "None"

\* next((tool for tool in tool_list if tool.name == name), None)
FindTool(tool_list, name) == IF name \in tool_list THEN name ELSE NoTool

\* _load_tools_from_sessions(sessions); the sessions "claude-context" and "grep"
\* are opened exactly for the retrieval types that name them. search_tools is
\* modelled as the set of its tools.
load_tools_from_sessions(fs_tools, edit_tools, cc_tool_list, grep_tools, retrieval_types) ==
  LET edit_tool == FindTool(edit_tools, "edit")
      basic == (fs_tools \cap {"read_file", "list_directory", "directory_tree"})
                 \cup (IF edit_tool # NoTool THEN {edit_tool} ELSE {})
      with_cc == "cc" \in retrieval_types
      search_code_tool == IF with_cc THEN FindTool(cc_tool_list, "search_code") ELSE NoTool
      cc_search == IF search_code_tool # NoTool THEN {search_code_tool} ELSE {}
      grep_search == IF "grep" \in retrieval_types /\ grep_tools # <<>>
                       THEN {grep_tools[1]}
                       ELSE {}
  IN  [raised |-> FALSE,
       search_tools |-> basic \cup cc_search \cup grep_search,
       index_tool |-> IF with_cc THEN FindTool(cc_tool_list, "index_codebase") ELSE NoTool,
       indexing_status_tool |->
         IF with_cc THEN FindTool(cc_tool_list, "get_indexing_status") ELSE NoTool,
       clear_index_tool |-> IF with_cc THEN FindTool(cc_tool_list, "clear_index") ELSE NoTool,
       search_code_tool |-> search_code_tool]

ToolsInit ==
  /\ Idle
  /\ call \in {[op |-> "tools_in", fs_tools |-> f, edit_tools |-> e,
                cc_tool_list |-> c, grep_tools |-> g, retrieval_types |-> t] :
                 f \in SUBSET FsToolNames, e \in SUBSET EditToolNames,
                 c \in SUBSET CcToolNames, g \in GrepToolLists, t \in RetrievalTypes}

\* mcp_sessions_context: the tools are loaded from the opened sessions and
\* yielded to async_build_index or async_search.
ApplyTools ==
  /\ call.op = "tools_in"
  /\ call' = [op |-> "tools", fs_tools |-> call.fs_tools,
               edit_tools |-> call.edit_tools, cc_tool_list |-> call.cc_tool_list,
               grep_tools |-> call.grep_tools, retrieval_types |-> call.retrieval_types,
               result |-> load_tools_from_sessions(call.fs_tools, call.edit_tools,
                            call.cc_tool_list, call.grep_tools, call.retrieval_types)]
  /\ UNCHANGED pipeline

NextTools == ApplyTools

SpecTools == ToolsInit /\ [][NextTools]_vars

\* ---------------------------------------------------------------------------
\* calculate_total_tokens: the token usage of a response.
\* ---------------------------------------------------------------------------

\* A key of a usage dict that is absent is the empty tuple, a value n is <<n>>.
Absent == <<>>

\* The usage data of one message: non-negative counts, total_tokens optional.
Usages ==
  {[input_tokens |-> i, output_tokens |-> o, total_tokens |-> t] :
     i \in 0..MaxTokens, o \in 0..MaxTokens,
     t \in {Absent} \cup {<<n>> : n \in 0..MaxTokens}}

NoUsage == [input_tokens |-> 0, output_tokens |-> 0, total_tokens |-> Absent]

\* Messages of a response: with a usage_metadata dict, with a usage dict in
\* response_metadata, without either attribute, and with the attribute
\* usage_metadata set to None.
Messages ==
  {[kind |-> k, usage |-> u] :
     k \in {"usage_metadata", "response_metadata"}, u \in Usages}
    \cup {[kind |-> "plain", usage |-> NoUsage],
          [kind |-> "usage_metadata_none", usage |-> NoUsage]}

Responses(max_messages) == SeqsUpTo(Messages, max_messages)

\* usage.get("total_tokens", input_tokens + output_tokens)
TurnTotal(usage) ==
  IF usage.total_tokens = Absent
    THEN usage.input_tokens + usage.output_tokens
    ELSE usage.total_tokens[1]

\* The loop of calculate_total_tokens from message k on; acc holds the four
\* running values. usage.get on None raises AttributeError.
RECURSIVE TokenLoop(_, _, _)
TokenLoop(messages, k, acc) ==
  IF k > Len(messages)
    THEN acc
    ELSE LET message == messages[k]
         IN  IF message.kind = "usage_metadata_none"
               THEN [acc EXCEPT !.raised = TRUE]
               ELSE LET current_turn_tokens ==
                          IF message.kind = "plain" THEN 0 ELSE TurnTotal(message.usage)
                        counted == message.kind # "plain"
                    IN  TokenLoop(messages, k + 1,
                          [raised |-> FALSE,
                           total_input_tokens |-> acc.total_input_tokens
                             + (IF counted THEN message.usage.input_tokens ELSE 0),
                           total_output_tokens |-> acc.total_output_tokens
                             + (IF counted THEN message.usage.output_tokens ELSE 0),
                           total_tokens |-> acc.total_tokens + current_turn_tokens,
                           max_single_turn_tokens |->
                             IF current_turn_tokens > acc.max_single_turn_tokens
                               THEN current_turn_tokens
                               ELSE acc.max_single_turn_tokens])

\* calculate_total_tokens(response)
calculate_total_tokens(messages) ==
  LET acc == TokenLoop(messages, 1,
               [raised |-> FALSE, total_input_tokens |-> 0, total_output_tokens |-> 0,
                total_tokens |-> 0, max_single_turn_tokens |-> 0])
  IN  IF acc.raised
        THEN [raised |-> TRUE]
        ELSE [raised |-> FALSE,
              input_tokens |-> acc.total_input_tokens,
              output_tokens |-> acc.total_output_tokens,
              total_tokens |-> IF acc.total_tokens > 0
                                 THEN acc.total_tokens
                                 ELSE acc.total_input_tokens + acc.total_output_tokens,
              max_single_turn_tokens |-> acc.max_single_turn_tokens]

TokensInit ==
  /\ Idle
  /\ call \in {[op |-> "tokens_in", messages |-> r] : r \in Responses(MaxMessages)}

\* Evaluator.async_run: token_usage = calculate_total_tokens(response)
ApplyTokens ==
  /\ call.op = "tokens_in"
  /\ call' = [op |-> "tokens", messages |-> call.messages,
               result |-> calculate_total_tokens(call.messages)]
  /\ UNCHANGED pipeline

NextTokens == ApplyTokens

SpecTokens == TokensInit /\ [][NextTokens]_vars

\* ---------------------------------------------------------------------------
\* The transcript round trip: edit calls rendered by
\* extract_conversation_summary and read back by
\* extract_edit_calls_from_conversation_log.
\* ---------------------------------------------------------------------------

\* Characters of the arguments of an edit call: a letter, a newline, the two
\* quote characters, a backslash and the braces.
ArgChars == {"a", "NL", "SQ", "DQ", "BS", "LB", "RB"}

\* File paths: a letter, alone or followed by one of the characters.
ArgPaths == {<<"a">> \o t : t \in SeqsUpTo(ArgChars, 1)}

\* The edit calls whose old_string and new_string hold at most max_len
\* characters.
ArgEdits(max_len) ==
  {[file_path |-> f, old_string |-> o, new_string |-> n] :
     f \in ArgPaths,
     o \in SeqsUpTo(ArgChars, max_len),
     n \in SeqsUpTo(ArgChars, max_len)}

\* An edit call of letters only.
PlainEdit == [file_path |-> <<"a">>, old_string |-> <<"a">>, new_string |-> <<"a", "a">>]

\* Arguments that hold the text of a key, as in an edit of source code that
\* names it: the quoted key, alone or behind a double quote, and the name
\* behind a backslash.
KeyArgs ==
  {<<"a">>} \cup {Quoted(k) : k \in Keys}
    \cup {<<"DQ">> \o Quoted(k) : k \in Keys}
    \cup {<<"BS">> \o Spell(k) : k \in Keys}

\* The edit calls whose arguments are of KeyArgs.
KeyEdits ==
  {[file_path |-> f, old_string |-> o, new_string |-> n] :
     f \in KeyArgs, o \in KeyArgs, n \in KeyArgs}

\* The edit calls of an agent run: any call of edits, alone or before or after
\* PlainEdit.
ArgEditLists(edits) ==
  {<<>>} \cup {<<e>> : e \in edits}
    \cup {<<e, PlainEdit>> : e \in edits}
    \cup {<<PlainEdit, e>> : e \in edits}

\* Every list of edit calls in the plain rendering, the lists of the calls
\* with empty strings in every rendering, and these lists behind a text that
\* quotes the arguments of PlainEdit; no text otherwise.
TranscriptInit ==
  /\ Idle
  /\ call \in {[op |-> "transcript_in", edits |-> l, text |-> <<>>,
                rendering |-> PlainRendering] :
                 l \in ArgEditLists(ArgEdits(MaxArg) \cup KeyEdits)}
               \cup {[op |-> "transcript_in", edits |-> l, text |-> <<>>,
                      rendering |-> r] :
                       l \in ArgEditLists(ArgEdits(0)), r \in Renderings}
               \cup {[op |-> "transcript_in", edits |-> l, text |-> x,
                      rendering |-> PlainRendering] :
                       l \in ArgEditLists(ArgEdits(0)), x \in QuotedBlocks(PlainEdit)}

\* The edit calls of a run are written to the transcript and read back.
ApplyTranscript ==
  /\ call.op = "transcript_in"
  /\ call' = [op |-> "transcript", edits |-> call.edits, text |-> call.text,
               rendering |-> call.rendering,
               result |-> extract_edit_calls_from_conversation_log(
                            ConversationLog(call.edits, call.text, call.rendering))]
  /\ UNCHANGED pipeline

NextTranscript == ApplyTranscript

SpecTranscript == TranscriptInit /\ [][NextTranscript]_vars

\* ---------------------------------------------------------------------------
\* extract_conversation_summary: the tool statistics of a result.
\* ---------------------------------------------------------------------------

\* Names of the tools the agent invokes.
CalledTools == {"Read", "Edit"}

\* An AI message that invokes the tools of names, the k-th with id k.
AIMessage(format, names) ==
  [type |-> "AI",
   content |-> IF format = "tool_calls"
                 THEN <<>>
                 ELSE <<[type |-> "text", name |-> "", id |-> 0]>>
                        \o [k \in DOMAIN names |->
                              [type |-> "tool_use", name |-> names[k], id |-> k]],
   tool_calls |-> IF format = "content"
                    THEN <<>>
                    ELSE [k \in DOMAIN names |-> [name |-> names[k], id |-> k]]]

\* A message without tool invocations: the user's, or a tool's response.
OtherMessage(type) == [type |-> type, content |-> <<>>, tool_calls |-> <<>>]

StatMessages ==
  {OtherMessage("Human"), OtherMessage("Tool")}
    \cup {AIMessage(f, n) : f \in CallFormats, n \in SeqsUpTo(CalledTools, MaxCalls)}

StatResponses == SeqsUpTo(StatMessages, MaxMessages)

\* tool_call_counts[tool_name] = tool_call_counts.get(tool_name, 0) + 1 and
\* total_tool_calls += 1
CountCall(stats, tool_name) ==
  [tool_call_counts |->
     [n \in DOMAIN stats.tool_call_counts \cup {tool_name} |->
        IF n = tool_name
          THEN (IF n \in DOMAIN stats.tool_call_counts
                  THEN stats.tool_call_counts[n]
                  ELSE 0) + 1
          ELSE stats.tool_call_counts[n]],
   total_tool_calls |-> stats.total_tool_calls + 1]

\* The loop over message.content: a tool_use item is counted.
RECURSIVE CountContent(_, _)
CountContent(stats, content) ==
  IF content = <<>>
    THEN stats
    ELSE CountContent(IF Head(content).type = "tool_use"
                        THEN CountCall(stats, Head(content).name)
                        ELSE stats,
                      Tail(content))

\* The loop over message.tool_calls: every entry is counted.
RECURSIVE CountToolCalls(_, _)
CountToolCalls(stats, tool_calls) ==
  IF tool_calls = <<>>
    THEN stats
    ELSE CountToolCalls(CountCall(stats, Head(tool_calls).name), Tail(tool_calls))

\* The loop over the messages: the two loops above for an AI message.
RECURSIVE CountMessages(_, _)
CountMessages(stats, messages) ==
  IF messages = <<>>
    THEN stats
    ELSE CountMessages(
           IF Head(messages).type = "AI"
             THEN CountToolCalls(CountContent(stats, Head(messages).content),
                                 Head(messages).tool_calls)
             ELSE stats,
           Tail(messages))

\* tool_stats of extract_conversation_summary(response); a dict is a function
\* on its keys.
extract_conversation_summary(messages) ==
  CountMessages([tool_call_counts |-> [n \in {} |-> 0], total_tool_calls |-> 0],
                messages)

StatsInit ==
  /\ Idle
  /\ call \in {[op |-> "stats_in", messages |-> r] : r \in StatResponses}

ApplyStats ==
  /\ call.op = "stats_in"
  /\ call' = [op |-> "stats", messages |-> call.messages,
               result |-> extract_conversation_summary(call.messages)]
  /\ UNCHANGED pipeline

NextStats == ApplyStats

SpecStats == StatsInit /\ [][NextStats]_vars

\* ------------------------------------------------------------------ claims

Min(a, b) == IF a < b THEN a ELSE b

\* The record the scheduler reads for instance i: a line of the result log when
\* the log exists, else result.json in the instance's directory.
HasRecord(i) == IF jsonl_exists THEN i \in jsonl_ids ELSE i \in result_json

PosInDataset(i) == CHOOSE k \in DOMAIN Dataset : Dataset[k] = i

\* C1: right after planning (no result written since), remaining is exactly the
\* instances of the dataset without a result record, each once, in dataset
\* order, and without a cap it is the plan that is returned; every plan over
\* the same store therefore returns the same list.
C1_RemainingIsDatasetMinusProcessed ==
  pc = "constructed" =>
    /\ \A k \in DOMAIN remaining_instances :
         /\ remaining_instances[k] \in RangeOf(Dataset)
         /\ ~HasRecord(remaining_instances[k])
    /\ \A i \in RangeOf(Dataset) :
         ~HasRecord(i) => \E k \in DOMAIN remaining_instances : remaining_instances[k] = i
    /\ \A k, l \in DOMAIN remaining_instances :
         k < l => PosInDataset(remaining_instances[k]) < PosInDataset(remaining_instances[l])
    /\ ~CapIsSet(max_instances) => instances = remaining_instances

\* A second plan, after a run that left one instance failed and one done.
C1_Witness ==
  /\ pc = "constructed"
  /\ runs >= 2
  /\ Len(remaining_instances) >= 1
  /\ Len(remaining_instances) < NumInstances
  /\ \E k \in DOMAIN remaining_instances : remaining_instances[k] \in error_log

\* C2: an instance whose result record an earlier run persisted is never
\* processed again, and a rerun processes nothing once every instance of the
\* dataset has a persisted result.
C2_NeverReprocessed ==
  pc = "checkout" =>
    /\ cur \notin result_json
    /\ \E i \in RangeOf(Dataset) : i \notin result_json

\* C3: with a cap set, the plan is empty when processed_count >= cap, and else
\* the first min(|remaining|, cap - processed_count) remaining instances.
C3_CapRespectsProgress ==
  (pc = "constructed" /\ CapIsSet(max_instances)) =>
    LET cap == max_instances[1]
    IN  /\ processed_count >= cap => instances = <<>>
        /\ processed_count < cap =>
             instances = SubSeq(remaining_instances, 1,
                                Min(Len(remaining_instances), cap - processed_count))
        /\ processed_count < cap => Len(instances) <= cap - processed_count

\* A plan that the cap truncates after earlier progress.
C3_Witness ==
  /\ pc = "constructed"
  /\ CapIsSet(max_instances)
  /\ processed_count >= 1
  /\ processed_count < max_instances[1]
  /\ Len(remaining_instances) > max_instances[1] - processed_count
  /\ Len(instances) = max_instances[1] - processed_count

\* C4: done-ness is monotonic: no step removes a result record, and no step
\* writes the result record of an instance that is already done.
C4_DoneMonotonic ==
  [][\A i \in result_json :
       /\ i \in result_json'
       /\ ~(pc = "persist" /\ pc' = "diff" /\ cur = i)]_vars

\* C5: once the except block that follows an exception of index_codebase or
\* of a status poll is over, clear_index was invoked exactly once, before the
\* exception reaches async_run, and the search step does not run.
C5_ClearOnceAfterBuildFailure ==
  (origin \in {"index", "poll"} /\ pc # "build_clear") =>
    /\ clear_calls = 1
    /\ ~search_ran
    /\ pc \in {"build_close", "except", "loop", "idle", "escaped"}

\* A status poll raised and the exception is at async_run's handler.
C5_Witness ==
  /\ pc = "except"
  /\ origin = "poll"
  /\ clear_calls = 1
  /\ build_started

\* C6: when an instance's iteration is over, clear_index was invoked for it
\* if its index build was started.
C6_ClearBeforeNextInstance ==
  (pc \in {"loop", "idle"} /\ build_started) => clear_calls >= 1

\* C7: when the checkout of the next instance starts, the index of the previous
\* instance is Cleared or Absent, whatever the backend did.
C7_PreviousIndexCleared ==
  [][(pc' = "checkout" /\ pc # "checkout") =>
       index_state \in {"Cleared", "Absent"}]_vars

\* C8: the exception that leaves async_build_index after a failure of the
\* build is the build error, also when the clear raises.
C8_BuildErrorNotMasked ==
  (pc = "except" /\ origin \in {"index", "poll"}) => exc = "build_error"

\* C9: with "cc" enabled, when the agent run raised and an exception reaches
\* async_run's handler, clear_index was attempted and the exception at the
\* handler is the search error.
C9_SearchErrorSurvivesClear ==
  (origin = "agent" /\ retrieval_cc /\ pc = "except") =>
    /\ clear_calls = 1
    /\ exc = "search_error"

\* The steps of checkout, build and search.
ProcessingOrigins ==
  {"checkout", "build_enter", "index", "poll", "build_close", "search_enter",
   "agent", "search_close"}

\* C10: an exception of checkout, build or search is recorded in error.log in
\* the instance's directory and the loop goes on: every instance before the
\* loop position has been attempted, no such exception ends the run, and at
\* the end of the run every scheduled instance has been attempted.
C10_FailureNeverAbortsBatch ==
  /\ pc \notin {"idle", "constructed"} =>
       /\ idx <= Len(instances) + 1
       /\ \A k \in 1..(idx - 1) : instances[k] \in attempted
  /\ pc = "except" => cur \in instance_dirs
  /\ (pc = "loop" /\ exc # "none") =>
       /\ instances[idx - 1] \in error_log
       /\ instances[idx - 1] \in instance_dirs
       /\ logged = exc
  /\ (pc = "idle" /\ runs > 0) => attempted = RangeOf(instances)
  /\ pc = "escaped" => origin \notin ProcessingOrigins

\* C11: in a run without "cc", no index tool is invoked (no index_codebase, no
\* status poll, no clear_index) and the index state stays Absent.
C11_NoIndexOperationWithoutCc ==
  ~retrieval_cc =>
    /\ index_state = "Absent"
    /\ ~build_started
    /\ polls = 0
    /\ clear_calls = 0
    /\ ~clear_ok
    /\ ~clear_raised
    /\ pc \notin {"index", "poll", "build_clear", "build_close", "search_clear"}

\* A run without "cc" in which the agent ran for one instance and the loop is
\* at a later instance.
C11_Witness ==
  /\ ~retrieval_cc
  /\ idx > 1
  /\ instances[idx - 1] \in result_json
  /\ pc = "persist"
  /\ search_ran

\* C18: changes.diff exists in an instance's directory only if the transcript
\* kept in that directory holds at least one edit call.
C18_DiffOnlyWithEditCalls ==
  \A i \in changes_diff : HasEditCalls(i)

\* C20: after create_unified_diff_file raised for an instance, result.json and
\* conversation.log of the instance are on disk, the iteration wrote no
\* error.log, no exception propagates, and the loop is past the instance.
C20_DiffErrorIsNotFatal ==
  /\ pc = "diff" =>
       /\ cur \in result_json
       /\ conv_logged
       /\ conversation_log[cur] # "none"
  /\ diff_raised =>
       /\ pc \in {"loop", "idle"}
       /\ exc = "none"
       /\ logged = "none"
       /\ conv_logged
       /\ instances[idx - 1] \in result_json
       /\ instances[idx - 1] \in attempted

\* The reconstruction raised for an instance processed for the first time, which
\* has result.json and no error.log, and the loop goes on to another instance.
C20_Witness ==
  /\ diff_raised
  /\ pc = "loop"
  /\ idx <= Len(instances)
  /\ instances[idx - 1] \in result_json
  /\ instances[idx - 1] \notin error_log
  /\ HasEditCalls(instances[idx - 1])

\* The sets the claims on calculate_metrics speak of: hits and oracles with a
\* single leading separator stripped.
HitSet == {normalize_file_path(call.hits[k]) : k \in DOMAIN call.hits}
OracleSet == {normalize_file_path(call.oracles[k]) : k \in DOMAIN call.oracles}
Correct == Cardinality(HitSet \cap OracleSet)

\* x is the fraction n / d, or 0 when d = 0.
IsQuotient(x, n, d) == IF d = 0 THEN x[1] = 0 ELSE x[1] * d = n * x[2]

\* C12: the record returned by calculate_metrics has precision = |H n O| / |H|
\* (0 for empty H), recall = |H n O| / |O| (0 for empty O), f1 = 2PR / (P + R)
\* (0 when P + R = 0, that is when H n O is empty) and num_correct = |H n O|.
C12_MetricsFormulas ==
  call.op = "metrics" =>
    LET r == call.result
    IN  /\ IsQuotient(r.precision, Correct, Cardinality(HitSet))
        /\ IsQuotient(r.recall, Correct, Cardinality(OracleSet))
        /\ IsQuotient(r.f1, 2 * Correct,
                      IF Correct = 0
                        THEN 0
                        ELSE Cardinality(HitSet) + Cardinality(OracleSet))
        /\ "num_correct" \in DOMAIN r
        /\ r.num_correct = Correct

\* C13: for every pair of lists calculate_metrics returns a record with
\* precision, recall, f1, num_hits, num_oracles and num_correct, and for two
\* empty lists the three metrics are 0.
C13_MetricsTotal ==
  call.op = "metrics" =>
    /\ DOMAIN call.result =
         {"precision", "recall", "f1", "num_hits", "num_oracles", "num_correct"}
    /\ (call.hits = <<>> /\ call.oracles = <<>>) =>
         /\ call.result.precision = Zero
         /\ call.result.recall = Zero
         /\ call.result.f1 = Zero

\* A path that names a file of the checkout relative to its root.
RepositoryRelative(p) ==
  /\ ~IsAbs(p)
  /\ Components(p) # <<>> => Head(Components(p)) # <<".", ".">>

\* The position of the first line of the transcript that names a path whose
\* relative form is rel.
FirstAppearance(rel) ==
  CHOOSE k \in DOMAIN call.lines :
    /\ call.lines[k].kind # "plain"
    /\ normalize_to_relative_path(call.lines[k].path, CodebasePath) = rel
    /\ \A m \in 1..(k - 1) :
         \/ call.lines[m].kind = "plain"
         \/ normalize_to_relative_path(call.lines[m].path, CodebasePath) # rel

NoDuplicates(q) == \A m, n \in DOMAIN q : q[m] = q[n] => m = n

\* C14: every path of the hits is repository-relative, no path occurs twice,
\* and the paths are in the order of their first appearance in the messages.
C14_HitsRepositoryRelative ==
  call.op = "hits" =>
    /\ \A k \in DOMAIN call.result : RepositoryRelative(call.result[k])
    /\ NoDuplicates(call.result)
    /\ \A m, n \in DOMAIN call.result :
         m < n => FirstAppearance(call.result[m]) <= FirstAppearance(call.result[n])

\* The acknowledgments the edit tool produced in the run.
IsEditAck(line) == line.src = "edit_tool" /\ line.kind = "ack"

\* C15: the hits depend on the edit-tool acknowledgments alone: they are the
\* hits of the transcript with every other line removed.
C15_HitsFromEditAcksOnly ==
  call.op = "hits" =>
    call.result =
      extract_file_paths_from_edits(SelectSeq(call.lines, IsEditAck), CodebasePath)

\* A header line of a patch: it starts with "--- a/" and names a path.
IsHeaderLine(line) == Len(line) > 1 /\ line[1] = Header

\* C16: the oracle files are exactly the paths named by the header lines of
\* the patch, and none for an empty or missing patch.
C16_OraclesAreHeaderPaths ==
  call.op = "oracle" =>
    call.result =
      {Tail(call.patch.lines[k]) :
         k \in {n \in DOMAIN call.patch.lines : IsHeaderLine(call.patch.lines[n])}}

\* old_string occurs verbatim in the current content of the file.
OccursIn(file_path, old_string) ==
  /\ Readable(file_path)
  /\ \E pos \in 0..Len(Content(file_path)) :
       /\ pos + Len(old_string) <= Len(Content(file_path))
       /\ SubSeq(Content(file_path), pos + 1, pos + Len(old_string)) = old_string

\* The 1-based number of the line in which the first occurrence of old_string
\* starts.
FirstLine(file_path, old_string) ==
  LET content == Content(file_path)
      starts == {pos \in 0..Len(content) :
                   /\ pos + Len(old_string) <= Len(content)
                   /\ SubSeq(content, pos + 1, pos + Len(old_string)) = old_string}
      first == CHOOSE p \in starts : \A q \in starts : p <= q
  IN  1 + Cardinality({k \in 1..first : content[k] = "NL"})

\* The name under which the diff shows a file.
Shown(file_path) ==
  IF Exists(file_path) THEN RelPath(AbsPath(file_path), Cwd) ELSE file_path

\* The lines of a conversation log that hold "Arguments:".
ArgumentsLines(log_content) ==
  {i \in DOMAIN SplitLines(log_content) :
     Find(SplitLines(log_content)[i], <<"Arguments:">>) # {}}

\* C17: for a transcript with one edit call for file F whose old_string occurs
\* verbatim in F, the diff names a/F and b/F and is annotated with the line of
\* the first occurrence of old_string, whatever old_string and new_string are.
C17_DiffRoundTrip ==
  (/\ call.op = "diff"
   /\ Len(call.edits) = 1
   /\ Cardinality(ArgumentsLines(
                     ConversationLog(call.edits, call.text, call.rendering))) = 1
   /\ OccursIn(call.edits[1].file_path, call.edits[1].old_string)) =>
    /\ call.result.written
    /\ Len(call.result.sections) = 1
    /\ LET e == call.edits[1]
           d == call.result.sections[1].diff
       IN  /\ d.fromfile = <<"a", "/">> \o Shown(e.file_path)
           /\ d.tofile = <<"b", "/">> \o Shown(e.file_path)
           /\ d.start_line = <<FirstLine(e.file_path, e.old_string)>>

\* The edit calls that the reconstruction reads from the conversation log.
ExtractedCalls ==
  extract_edit_calls_from_conversation_log(
    ConversationLog(call.edits, call.text, call.rendering))

\* C19: an edit call whose old_string is not located (text absent, file
\* missing or unreadable) gets a section without line annotation, and every
\* edit call of the transcript, before and after it, gets its section.
C19_UnlocatedEditDegrades ==
  call.op = "diff" =>
    /\ Len(call.result.sections) = Len(ExtractedCalls)
    /\ \A k \in DOMAIN ExtractedCalls :
         LET e == ExtractedCalls[k]
             s == call.result.sections[k]
         IN  /\ s.edit = k
             /\ s.file_path = e.file_path
             /\ ~OccursIn(e.file_path, e.old_string) => s.diff.start_line = None
             /\ OccursIn(e.file_path, e.old_string) =>
                  s.diff.start_line = <<FirstLine(e.file_path, e.old_string)>>

\* A text that spreads the arguments of an edit call over three lines and
\* names a missing file, then a rendered edit call: the call read from the
\* three lines gets no annotation, the second is located and annotated.
C19_Witness ==
  /\ call.op = "diff"
  /\ Len(SplitLines(call.text)) = 3
  /\ Len(call.edits) = 1
  /\ Len(call.result.sections) = 2
  /\ ~Exists(call.result.sections[1].file_path)
  /\ call.result.sections[1].diff.start_line = None
  /\ call.result.sections[1].diff.fromfile # None
  /\ call.result.sections[2].diff.start_line = <<3>>

\* A required capability is missing from the opened sessions: read, list, tree
\* or edit, or a search or index tool of an enabled backend.
CapabilityMissing ==
  \/ ~({"read_file", "list_directory", "directory_tree"} \subseteq call.fs_tools)
  \/ "edit" \notin call.edit_tools
  \/ "cc" \in call.retrieval_types /\ ~(CcToolNames \subseteq call.cc_tool_list)
  \/ "grep" \in call.retrieval_types /\ call.grep_tools = <<>>

\* C21: when a required capability is missing, tool assembly raises.
C21_MissingToolRaises ==
  (call.op = "tools" /\ CapabilityMissing) => call.result.raised

\* C22: a plan made while the result log exists is computed from the ids of its
\* lines alone, whatever the instance directories hold; a plan made without the
\* log is computed from the directories that hold result.json.
C22_OneLayoutAuthoritative ==
  pc = "constructed" =>
    IF jsonl_exists
      THEN /\ remaining_instances = SelectSeq(Dataset, LAMBDA i : i \notin jsonl_ids)
           /\ processed_count = Cardinality(RangeOf(Dataset) \cap jsonl_ids)
      ELSE /\ remaining_instances =
                SelectSeq(Dataset, LAMBDA i : i \notin (result_json \cap instance_dirs))
           /\ processed_count = Cardinality(result_json \cap instance_dirs)

\* A plan made while the result log exists schedules an instance whose
\* directory holds result.json.
C22_Witness ==
  /\ pc = "constructed"
  /\ jsonl_exists
  /\ \E k \in DOMAIN remaining_instances : remaining_instances[k] \in result_json

\* The messages of the response that carry usage data.
CarriesUsage(message) == message.kind \in {"usage_metadata", "response_metadata"}
WithUsage == SelectSeq(call.messages, CarriesUsage)

RECURSIVE SumSeq(_)
SumSeq(q) == IF q = <<>> THEN 0 ELSE Head(q) + SumSeq(Tail(q))

SumOver(q, F(_)) == SumSeq([k \in DOMAIN q |-> F(q[k])])

InputOf(message) == message.usage.input_tokens
OutputOf(message) == message.usage.output_tokens
TotalOf(message) == TurnTotal(message.usage)

\* C23: the result holds the sums of the input and output counts and of the
\* per-message totals over the messages that carry usage data, and the largest
\* per-message total, which never exceeds total_tokens.
C23_TokenTotals ==
  call.op = "tokens" =>
    /\ ~call.result.raised
    /\ call.result.input_tokens = SumOver(WithUsage, InputOf)
    /\ call.result.output_tokens = SumOver(WithUsage, OutputOf)
    /\ call.result.total_tokens = SumOver(WithUsage, TotalOf)
    /\ \A k \in DOMAIN WithUsage : TotalOf(WithUsage[k]) <= call.result.max_single_turn_tokens
    /\ \/ WithUsage = <<>> /\ call.result.max_single_turn_tokens = 0
       \/ \E k \in DOMAIN WithUsage : TotalOf(WithUsage[k]) = call.result.max_single_turn_tokens
    /\ call.result.max_single_turn_tokens <= call.result.total_tokens

\* C24: the Building state is left only to Ready, by a status result with the
\* readiness phrase, or to Failed, by an invocation that raised; any other
\* status result is followed by another poll; and when the backend at last
\* answers ready or raises, the status loop is left.
C24_BuildingLeftOnReadyOrRaise ==
  /\ [][index_state = "Building" =>
          \/ index_state' = "Building" /\ pc' = "poll" /\ polls' = polls + 1
          \/ index_state' = "Ready" /\ pc' = "build_close" /\ exc' = "none"
          \/ index_state' = "Failed" /\ pc' = "build_clear" /\ exc' = "build_error"]_vars
  /\ (pc = "poll") ~> (pc # "poll")

\* The status loop after a status result without the readiness phrase.
C24_Witness ==
  /\ pc = "poll"
  /\ index_state = "Building"
  /\ polls >= 1

\* C25: clear_index is invoked at most once for the instance being processed
\* (the cleanup after a failed build and the cleanup after the search exclude
\* each other), and only with code search enabled and after index_codebase
\* was invoked for it.
C25_ClearAtMostOnce ==
  /\ clear_calls <= 1
  /\ (clear_ok \/ clear_raised) => clear_calls = 1
  /\ clear_calls = 1 => (retrieval_cc /\ build_started)
  /\ (clear_calls = 1 /\ search_ran) => origin \notin {"index", "poll"}

\* An instance whose build failed was cleaned up once and its iteration is
\* over without a search.
C25_Witness ==
  /\ pc = "loop"
  /\ clear_calls = 1
  /\ build_started
  /\ ~search_ran

\* C26: result.json is created only by the step that follows a checkout, a
\* build and a search without exception; an instance whose only iteration so
\* far ended in async_run's handler has no result.json; and the run after a
\* first run finds the instances that run logged as failed without
\* result.json and among the remaining ones.
C26_ResultOnlyAfterSuccess ==
  /\ [][\A i \in result_json' \ result_json :
          /\ pc = "persist"
          /\ i = cur
          /\ search_ran
          /\ exc = "none"
          /\ retrieval_cc => (build_started /\ index_state \in {"Ready", "Cleared"})]_vars
  /\ []((runs = 1 /\ pc = "loop" /\ exc # "none") =>
          instances[idx - 1] \notin result_json)
  /\ []((runs = 2 /\ pc = "constructed") =>
          \A i \in error_log :
            /\ i \notin result_json
            /\ \E k \in DOMAIN remaining_instances : remaining_instances[k] = i)

\* C27: no instance directory holds both result.json and error.log, so the
\* directories with result.json and those with error.log partition the
\* directories of the instances that were attempted.
C27_ResultAndErrorExclusive ==
  /\ result_json \cap error_log = {}
  /\ (pc = "idle" /\ runs > 0) =>
       \A i \in attempted : (i \in result_json) # (i \in error_log)

\* C28: with the directory layout and a cap c > 0, no step of a run with cap c
\* takes the number of instance directories that hold result.json from at
\* most c to more than c; so runs with that cap from a location with at most c
\* result records never exceed c.
C28_CapBoundsResults ==
  [][(/\ ~jsonl_exists
      /\ CapIsSet(max_instances)
      /\ max_instances' = max_instances
      /\ Cardinality(result_json \cap instance_dirs) <= max_instances[1])
       => Cardinality(result_json' \cap instance_dirs') <= max_instances[1]]_vars

\* A second run with a cap that the result records have reached by a write of
\* that run.
C28_Witness ==
  /\ ~jsonl_exists
  /\ CapIsSet(max_instances)
  /\ runs = 2
  /\ pc = "diff"
  /\ processed_count >= 1
  /\ cur \in result_json
  /\ Cardinality(result_json \cap instance_dirs) = max_instances[1]

\* C29: the edit calls read back from the transcript are the edit calls that
\* were rendered into it: one per invocation, with the same file_path,
\* old_string and new_string, in the order of the transcript.
C29_TranscriptRoundTrip ==
  call.op = "transcript" => call.result = call.edits

\* The tool invocations of a response: message, id and tool name, whether the
\* message carries them as tool_use items, in tool_calls, or both.
Invocations(messages) ==
  UNION {{<<m, c.id, c.name>> : c \in {messages[m].tool_calls[k] :
                                          k \in DOMAIN messages[m].tool_calls}}
           \cup {<<m, messages[m].content[k].id, messages[m].content[k].name>> :
                   k \in {j \in DOMAIN messages[m].content :
                            messages[m].content[j].type = "tool_use"}} :
         m \in DOMAIN messages}

\* The sum of the values of a dict of counts.
RECURSIVE SumCounts(_, _)
SumCounts(counts, keys) ==
  IF keys = {}
    THEN 0
    ELSE LET n == CHOOSE x \in keys : TRUE
         IN  counts[n] + SumCounts(counts, keys \ {n})

\* C30: every tool invocation is counted once: total_tool_calls is the number
\* of invocations and the sum of tool_call_counts, and the count of a tool is
\* the number of its invocations.
C30_ToolCallsCountedOnce ==
  call.op = "stats" =>
    LET invs == Invocations(call.messages)
        counts == call.result.tool_call_counts
    IN  /\ call.result.total_tool_calls = Cardinality(invs)
        /\ call.result.total_tool_calls = SumCounts(counts, DOMAIN counts)
        /\ DOMAIN counts = {i[3] : i \in invs}
        /\ \A n \in DOMAIN counts : counts[n] = Cardinality({i \in invs : i[3] = n})

====
